---- MODULE Spec2Model ----
(***************************************************************************)
(* Timed role waiting (src/src/cogs/waiting.py, class TimedRoleWaiting).   *)
(*                                                                         *)
(* One cog owns two periodic tasks (check_waiting every 60 s, daily_reset  *)
(* every hour), an asyncio lock shared by the two, a dictionary of         *)
(* per-channel message queues, and the command and event handlers that     *)
(* read and write RoleWaiting records.  Every coroutine is modelled as a   *)
(* sequence of steps cut at its await points: the effect of the awaited    *)
(* call (a database write, a permission change, a role change) and the     *)
(* synchronous code that follows it up to the next await form one step.    *)
(* The clock counts whole minutes, the resolution at which the code reads  *)
(* it; the position of a timer inside its minute is left open.             *)
(***************************************************************************)
EXTENDS Integers, Sequences, FiniteSets, TLC

(***************************************************************************)
(* Program constants.                                                      *)
(***************************************************************************)
MinutesPerHour == 60
HoursPerDay == 24
MinutesPerDay == MinutesPerHour * HoursPerDay
CheckPeriod == 1                  \* tasks.loop(seconds=60), in minutes
ResetPeriod == 60                 \* tasks.loop(hours=1), in minutes
ResetHour == 4                    \* now.hour == 4
ResetWindow == 5                  \* now.minute < 5
FreeLimit == 2                    \* current_count >= 2
LastHour == 23                    \* 0 <= hour <= 23
LastMinute == 59                  \* 0 <= minute <= 59
UserLimitMax == 1000              \* user_limit > 1000

(***************************************************************************)
(* Bounds of the model.                                                    *)
(***************************************************************************)
MaxElapsed == 2        \* minutes observed after the timers start
SchedElapsed == 7      \* the same, when only the timers run
MaxMsgs == 2           \* messages posted in the waiting channel
MaxManual == 1         \* manual triggers issued
MaxTakeback == 1       \* takeback commands issued
MaxFaults == 1         \* external calls that fail
ResetDays == 1         \* days over which the reset loop is followed
MaxEdits == 1          \* wait_edit dialogues that find their row
MaxDeletes == 1        \* wait_delete commands that find their row
RowsElapsed == 1       \* the same, when the table has two rows
StopElapsed == 1       \* the same, when the cog can be unloaded
SplitLen == 3          \* entries in the queue a closure starts from
SplitStamps == 3       \* distinct created_at values of these entries

None == "none"                    \* no holder of the lock
NoDate == <<>>                    \* last_triggered is None
Cfgs == {"c1"}                    \* RoleWaiting rows, all is_active
IdOrder == <<"c1", "c2", "c3", "c4">>   \* row ids in the order they are created in
TwoRows == {"c1", "c2"}           \* the rows of a table of two
Guild == "g1"                     \* the guild the commands are given in
Users == {"A", "B"}               \* members able to post in the channel
FirstDay == 1                     \* the date on which the cog is loaded

Day(t) == t \div MinutesPerDay
Date(t) == <<Day(t)>>             \* now.date()
Hour(t) == (t % MinutesPerDay) \div MinutesPerHour
Minute(t) == t % MinutesPerHour
At(d, h, m) == d * MinutesPerDay + h * MinutesPerHour + m

Max(a, b) == IF a >= b THEN a ELSE b

SeqToSet(s) == {s[i] : i \in 1..Len(s)}

VARIABLES
  now,          \* wall clock (IST), minutes since 00:00 of date 0
  startedAt,    \* when the two loops were started
  endTime,      \* end of the observed interval
  conf,         \* per row: trigger_time, max_users, guild
  resolves,     \* per row: which of guild, channel, role the cache resolves
  db,           \* per row: the persisted given_users and last_triggered
  chanOpen,     \* the channel lets @everyone send messages
  hasRole,      \* members holding the role
  queue,        \* self._message_queue, a dictionary keyed by channel
  lock,         \* self._task_lock: "free" or its holder
  checkT,       \* the check_waiting loop, its running iteration, whether one overran
  resetT,       \* the daily_reset loop, its running iteration, the date it last reset on,
                \* the members it last awaited remove_roles for
  act,          \* activate_waiting calls in progress, by caller
  manual,       \* the waiting test command in progress
  tb,           \* the waiting takeback command in progress
  msgs,         \* on_message invocations, by message number
  posted,       \* messages posted so far
  budget,       \* commands the administrators may still issue, whether the store can fail
  fired,        \* per row: dates of the activations persisted by check_waiting
  faults,       \* external calls that have failed so far
  buffered,     \* arrivals appended to the queue since an activation last reset it
  adm           \* the guild's premium flag, the id of the next row, the setup, edit,
                \* delete and takebackall commands in progress, the last reply

vars == <<now, startedAt, endTime, conf, resolves, db, chanOpen, hasRole, queue,
          lock, checkT, resetT, act, manual, tb, msgs, posted, budget, fired, faults,
          buffered, adm>>


(***************************************************************************)
(* Values.                                                                 *)
(***************************************************************************)
Channel == "ch"                   \* the one waiting channel
StartTimes == {At(FirstDay, 4, 0)}
SchedStartTimes == {At(FirstDay, 3, 59), At(FirstDay, 4, 0)}
TriggerTimes == {<<4, 0>>, <<4, 1>>, <<4, 2>>}   \* "04:00", "04:01", "04:02"
GateTriggerTimes == {<<4, 0>>, <<4, 1>>}
UserLimits == {1, 2}
ResolveKinds == {"all", "no_guild", "no_channel", "no_role"}

\* A row as the store holds it and as a coroutine holds its copy of it.
EmptyRec == [given_users |-> <<>>, last_triggered |-> NoDate]
NoRecs == [c \in Cfgs |-> EmptyRec]
\* What an earlier day can have left in the store.
InitRecs == {EmptyRec,
             [given_users |-> <<>>, last_triggered |-> <<FirstDay - 1>>],
             [given_users |-> <<"A">>, last_triggered |-> <<FirstDay - 1>>],
             [given_users |-> <<"A", "B">>, last_triggered |-> <<FirstDay - 1>>]}

\* trigger_hour, trigger_minute = map(int, waiting.trigger_time.split(":")),
\* trigger_time being the sequence of the numbers between its colons: the
\* unpacking raises unless there are two.
Parses(tt) == Len(tt) = 2
ParseTrigger(tt) == [hour |-> tt[1], minute |-> tt[2]]

\* save() of a fetched row updates the row with that id, if it is still there.
Stored(table, c, row) == IF c \in DOMAIN table THEN [table EXCEPT ![c] = row] ELSE table

\* The rows of the table, in the order filter(...).all() returns them in.
Rows == DOMAIN conf
RowOrder == SelectSeq(IdOrder, LAMBDA c : c \in Rows)

IdleFrame == [pc |-> "idle", cfg |-> "c1", date |-> NoDate, rec |-> EmptyRec,
              pre |-> EmptyRec, out |-> "none", dropped |-> 0]
IdleCheck(next, overran) ==
  [pc |-> "sleep", next |-> next, cnow |-> 0, recs |-> NoRecs, todo |-> <<>>,
   started |-> TRUE, overran |-> overran, cancel |-> FALSE, cut |-> "none"]
IdleReset(next, ran, tried) ==
  [pc |-> "sleep", next |-> next, recs |-> NoRecs, todo |-> <<>>, cfg |-> "c1",
   users |-> <<>>, ran |-> ran, tried |-> tried, cancel |-> FALSE, cut |-> "none"]
IdleCmd == [pc |-> "idle", cfg |-> "c1", rec |-> EmptyRec, users |-> <<>>,
            removed |-> 0, oks |-> <<>>, tried |-> {}]

\* The commands that are dialogues or iterate over rows: wait_setup (two can
\* run at once), wait_edit, wait_delete, wait_takeback_all; and what the last
\* command to end replied.
Dialogues == {1, 2}
NoSetup == [pc |-> "idle", count |-> 0, time |-> <<>>, limit |-> 0]
NoEdit == [pc |-> "idle", cfg |-> "c1", row |-> <<>>, rec |-> EmptyRec]
NoDelete == [pc |-> "idle", cfg |-> "c1"]
NoTba == [pc |-> "idle", recs |-> <<>>, todo |-> <<>>, cfg |-> "c1", users |-> <<>>,
          total |-> 0, processed |-> 0, oks |-> <<>>]
NoReply == [cmd |-> "none", kind |-> "none", id |-> "none"]
IdleAdm == [premium |-> FALSE, next |-> 2, setup |-> [d \in Dialogues |-> NoSetup],
            edit |-> NoEdit, del |-> NoDelete, tba |-> NoTba, reply |-> NoReply,
            left |-> [edit |-> 0, delete |-> 0]]

\* An awaited call to the platform returns or raises.
Outcomes == IF faults < MaxFaults THEN {TRUE, FALSE} ELSE {TRUE}
Charged(ok) == faults' = IF ok THEN faults ELSE faults + 1
\* An awaited call to the store returns or raises.
StoreOutcomes == IF budget.store /\ faults < MaxFaults THEN {TRUE, FALSE} ELSE {TRUE}

(***************************************************************************)
(* self._task_lock = asyncio.Lock(): acquire() takes the lock at once when *)
(* it is free and nobody waits, and otherwise queues; release() hands it   *)
(* to the first waiter.                                                    *)
(***************************************************************************)
CanAcquireAlways(l) == TRUE

CanAcquire(l) == l.holder = None /\ l.waiters = <<>>

Enqueue(l, p) == [l EXCEPT !.waiters = Append(@, p)]
Take(l, p) == [l EXCEPT !.holder = p]
Grant(l, p) == [holder |-> p, waiters |-> Tail(l.waiters)]
Release(l) == [l EXCEPT !.holder = None]
IsNext(l, p) == l.holder = None /\ l.waiters # <<>> /\ Head(l.waiters) = p

(***************************************************************************)
(* Exceptions.  A try statement is the sequence of its except clauses,     *)
(* each a pair of the class it names and what its body does; an exception  *)
(* raised at an await is stopped by the innermost try statement around the *)
(* await that has a clause matching it and not re-raising it.              *)
(***************************************************************************)
\* isinstance(exc, cls): CancelledError derives from BaseException, not from
\* Exception.
IsInstanceOfException(exc, cls) ==
  \/ cls = "BaseException"
  \/ cls = "Exception"
  \/ cls = "CancelledError" /\ exc = "CancelledError"

IsInstance(exc, cls) ==
  \/ cls = "BaseException"
  \/ cls = "Exception" /\ exc = "Exception"
  \/ cls = "CancelledError" /\ exc = "CancelledError"

TickTry == << <<"CancelledError", "raise">>, <<"Exception", "pass">> >>  \* lines 96-99, 152-155
PassTryRaises == << <<"Exception", "raise">> >>

PassTry == << <<"Exception", "pass">> >>             \* lines 93, 129, 146, 149
ReturnTry == << <<"Exception", "return">> >>         \* line 211

\* The try statements around the await a loop is suspended at, innermost first.
CheckTries(pc, apc) ==
  IF pc = "fetch" THEN <<TickTry>>
  ELSE IF pc = "call" /\ apc = "save" THEN <<PassTry, TickTry>>
  ELSE IF pc = "call" /\ apc = "open" THEN <<ReturnTry, PassTry, TickTry>>
  ELSE <<>>

ResetTries(pc) ==
  IF pc = "fetch" THEN <<TickTry>>
  ELSE IF pc = "revoke" THEN <<PassTry, PassTry, TickTry>>
  ELSE IF pc = "save" THEN <<PassTry, TickTry>>
  ELSE IF pc = "chlock" THEN <<PassTry, PassTry, TickTry>>
  ELSE <<>>

\* What the first except clause matching exc does; "raise" when none matches.
RECURSIVE Handling(_, _)
Handling(clauses, exc) ==
  IF clauses = <<>> THEN "raise"
  ELSE IF IsInstance(exc, Head(clauses)[1]) THEN Head(clauses)[2]
       ELSE Handling(Tail(clauses), exc)

\* exc leaves every one of the try statements.
RECURSIVE Propagates(_, _)
Propagates(tries, exc) ==
  \/ tries = <<>>
  \/ Handling(Head(tries), exc) = "raise" /\ Propagates(Tail(tries), exc)

\* The innermost of the try statements that stops exc, counted from 1; 0 when
\* exc leaves them all.
RECURSIVE CaughtAt(_, _)
CaughtAt(tries, exc) ==
  IF tries = <<>> THEN 0
  ELSE IF Handling(Head(tries), exc) # "raise" THEN 1
       ELSE LET r == CaughtAt(Tail(tries), exc) IN IF r = 0 THEN 0 ELSE r + 1

\* exc is stopped only by the try statement of the whole iteration: the rows
\* left of its for loop are not processed.
EndsTick(tries, exc) == CaughtAt(tries, exc) = Len(tries)

(***************************************************************************)
(* check_waiting                                                           *)
(***************************************************************************)
\* The guard of one row: time_matches and not already_triggered.
IsDue(c, rec, cnow) ==
  /\ Parses(conf[c].trigger_time)
  /\ LET t == ParseTrigger(conf[c].trigger_time)
         time_matches == Hour(cnow) = t.hour /\ Minute(cnow) = t.minute
         already_triggered == rec.last_triggered = Date(cnow)
     IN ~already_triggered /\ time_matches

\* activate_waiting returns at once unless guild, channel and role resolve.
Resolves(c) == resolves[c] = "all"

\* The rows left of the for loop, from the first one activate_waiting will
\* save: the rows before it are passed without an await.
RECURSIVE NextDue(_, _, _)
NextDue(todo, recs, cnow) ==
  IF todo = <<>> THEN <<>>
  ELSE IF IsDue(Head(todo), recs[Head(todo)], cnow) /\ Resolves(Head(todo))
       THEN todo
       ELSE NextDue(Tail(todo), recs, cnow)

\* The frame of an activate_waiting call as it reaches await waiting.save().
NewFrame(c, rec, date) ==
  [pc |-> "save", cfg |-> c, date |-> date, rec |-> rec, pre |-> db[c], out |-> "none",
   dropped |-> 0]

\* The for loop of check_waiting from `todo` on, up to the next await: either
\* an activation starts, or the loop ends and the lock is released.
CheckResume(ct, todo, old) ==
  LET due == NextDue(todo, ct.recs, ct.cnow) IN
  IF due = <<>>
  THEN [ct |-> IdleCheck(Max(ct.next, now), ct.overran \/ now > ct.next),
        lock |-> Release(lock),
        frame |-> old]
  ELSE [ct |-> [ct EXCEPT !.pc = "call", !.todo = Tail(due)], lock |-> lock,
        frame |-> NewFrame(Head(due), ct.recs[Head(due)], Date(ct.cnow))]

\* The loop wakes for its next iteration and reaches async with self._task_lock.
CheckWake ==
  /\ checkT.pc = "sleep"
  /\ ~checkT.cancel
  /\ now >= checkT.next
  /\ IF CanAcquire(lock)
     THEN /\ lock' = Take(lock, "check")
          /\ checkT' = [checkT EXCEPT !.pc = "fetch", !.next = @ + CheckPeriod,
                                      !.cnow = now, !.started = TRUE]
     ELSE /\ lock' = Enqueue(lock, "check")
          /\ checkT' = [checkT EXCEPT !.pc = "wait", !.next = @ + CheckPeriod,
                                      !.started = TRUE]
  /\ UNCHANGED <<adm, buffered, now, startedAt, endTime, conf, resolves, db, chanOpen, hasRole,
                 queue, resetT, act, manual, tb, msgs, posted, budget, fired, faults>>

\* The waiting iteration is handed the lock and reads the clock.
CheckAcquire ==
  /\ checkT.pc = "wait"
  /\ ~checkT.cancel
  /\ IsNext(lock, "check")
  /\ lock' = Grant(lock, "check")
  /\ checkT' = [checkT EXCEPT !.pc = "fetch", !.cnow = now]
  /\ UNCHANGED <<adm, buffered, now, startedAt, endTime, conf, resolves, db, chanOpen, hasRole,
                 queue, resetT, act, manual, tb, msgs, posted, budget, fired, faults>>

\* RoleWaiting.filter(is_active=True).all() returns; the for loop starts.
CheckFetch ==
  /\ checkT.pc = "fetch"
  /\ ~checkT.cancel
  /\ LET r == CheckResume([checkT EXCEPT !.recs = db], RowOrder, act["check"]) IN
       /\ checkT' = r.ct
       /\ lock' = r.lock
       /\ act' = [act EXCEPT !["check"] = r.frame]
  /\ UNCHANGED <<adm, buffered, now, startedAt, endTime, conf, resolves, db, chanOpen, hasRole,
                 queue, resetT, manual, tb, msgs, posted, budget, fired, faults>>


(***************************************************************************)
(* activate_waiting, called by check_waiting ("check") and by the waiting  *)
(* test command ("manual").                                                *)
(***************************************************************************)
\* What the caller does once activate_waiting has returned.
AfterActivation(w, frame) ==
  IF w = "check"
  THEN LET todo == IF /\ frame.out \in {"failed", "refused"}
                         /\ EndsTick(CheckTries("call", act[w].pc), "Exception")
                      THEN <<>> ELSE checkT.todo
            r == CheckResume([checkT EXCEPT !.cancel = FALSE], todo, frame) IN
         /\ checkT' = r.ct
         /\ lock' = r.lock
         /\ act' = [act EXCEPT ![w] = r.frame]
         /\ UNCHANGED manual
  ELSE /\ manual' = IdleCmd
       /\ act' = [act EXCEPT ![w] = frame]
       /\ UNCHANGED <<checkT, lock>>

\* The record as waiting.save() writes it after lines 196-197.
ActivatedRecKeepsUsers(frame) ==
  [frame.rec EXCEPT !.last_triggered = frame.date]

ActivatedRec(frame) ==
  [frame.rec EXCEPT !.given_users = <<>>, !.last_triggered = frame.date]

\* Members holding the role after the activation has saved the record.
RolesAfterActivationRevoked(frame) == hasRole \ SeqToSet(frame.pre.given_users)

RolesAfterActivation(frame) == hasRole

\* self._message_queue.get(ch, [])
QueueOf(q, ch) == IF ch \in DOMAIN q THEN q[ch] ELSE <<>>

\* The queue the activation leaves for the channel.
QueueAfterActivation(q) == (Channel :> <<>>)

\* waiting.given_users = []; waiting.last_triggered = current_date; save()
\* returns, and self._message_queue[channel.id] = [] follows before the next
\* await; or save() raises, which check_waiting passes over (line 93) and the
\* command does not handle.
ActSaveStep(w, ok) ==
  IF ok
  THEN /\ db' = Stored(db, act[w].cfg, ActivatedRec(act[w]))
       /\ hasRole' = RolesAfterActivation(act[w])
       /\ queue' = QueueAfterActivation(queue)
       /\ buffered' = 0
       /\ act' = [act EXCEPT ![w].pc = "open", ![w].rec = ActivatedRec(act[w]),
                             ![w].dropped = Len(QueueOf(queue, Channel))]
       /\ fired' = IF w = "check"
                   THEN [fired EXCEPT ![act[w].cfg] = Append(@, act[w].date)]
                   ELSE fired
       /\ UNCHANGED <<lock, checkT, manual>>
  ELSE /\ AfterActivation(w, [act[w] EXCEPT !.pc = "idle", !.out = "failed"])
       /\ UNCHANGED <<db, hasRole, queue, buffered, fired>>

ActSave(w) ==
  /\ act[w].pc = "save"
  /\ w = "check" => ~checkT.cancel
  /\ \E ok \in StoreOutcomes : Charged(ok) /\ ActSaveStep(w, ok)
  /\ UNCHANGED <<adm, now, startedAt, endTime, conf, resolves, chanOpen,
                 resetT, tb, msgs, posted, budget>>

\* The channel after channel.set_permissions(send_messages=True) succeeded.
Opened(open) == TRUE

\* set_permissions either opens the channel (the announcement that follows
\* changes no state) or raises, and activate_waiting returns.
ActOpenStep(w, ok) ==
  /\ chanOpen' = IF ok THEN Opened(chanOpen) ELSE chanOpen
  /\ AfterActivation(w, [act[w] EXCEPT !.pc = "idle",
                                      !.out = IF ok THEN "opened" ELSE "refused"])

ActOpen(w) ==
  /\ act[w].pc = "open"
  /\ w = "check" => ~checkT.cancel
  /\ \E ok \in Outcomes : Charged(ok) /\ ActOpenStep(w, ok)
  /\ UNCHANGED <<adm, buffered, now, startedAt, endTime, conf, resolves, db, hasRole, queue,
                 resetT, tb, msgs, posted, budget, fired>>

(***************************************************************************)
(* daily_reset                                                             *)
(***************************************************************************)
InResetWindow(t) == Hour(t) = ResetHour /\ Minute(t) < ResetWindow

\* The ids of `users` from the first one remove_roles is awaited for: the
\* members before it do not hold the role and are passed without an await.
RECURSIVE NextHolder(_, _)
NextHolder(users, roles) ==
  IF users = <<>> THEN <<>>
  ELSE IF Head(users) \in roles THEN users ELSE NextHolder(Tail(users), roles)

\* The rows left of the for loop, from the first one whose guild resolves.
RECURSIVE NextGuild(_)
NextGuild(todo) ==
  IF todo = <<>> THEN <<>>
  ELSE IF resolves[Head(todo)] # "no_guild" THEN todo ELSE NextGuild(Tail(todo))

\* The for loop of daily_reset from `todo` on, up to the next await, with
\* `roles` the members holding the role; when the loop ends the lock is released.
ResetResume(rt, todo, roles) ==
  LET rest == NextGuild(todo) IN
  IF rest = <<>>
  THEN [rt |-> IdleReset(Max(rt.next, now), rt.ran, rt.tried), lock |-> Release(lock)]
  ELSE LET c == Head(rest)
           us == IF resolves[c] # "no_role"
                 THEN NextHolder(rt.recs[c].given_users, roles) ELSE <<>>
       IN [rt |-> [rt EXCEPT !.pc = IF us # <<>> THEN "revoke" ELSE "save",
                             !.cfg = c, !.users = us, !.todo = Tail(rest),
                             !.tried = {}],
           lock |-> lock]

\* The body of daily_reset from the clock read to the first await: outside the
\* window the body ends and the lock is released.
ResetEnter(rt, l) ==
  IF InResetWindow(now)
  THEN [rt |-> [rt EXCEPT !.pc = "fetch", !.ran = Date(now)], lock |-> l]
  ELSE [rt |-> IdleReset(Max(rt.next, now), rt.ran, rt.tried), lock |-> Release(l)]

\* The loop wakes for its next iteration.  before_daily_reset sleeps one second
\* longer than before_check_waiting, so the first check iteration comes first.
ResetWake ==
  /\ resetT.pc = "sleep"
  /\ ~resetT.cancel
  /\ now >= resetT.next
  /\ checkT.started
  /\ LET rt == [resetT EXCEPT !.next = @ + ResetPeriod] IN
     IF CanAcquire(lock)
     THEN LET r == ResetEnter(rt, Take(lock, "reset")) IN
            /\ resetT' = r.rt
            /\ lock' = r.lock
     ELSE /\ lock' = Enqueue(lock, "reset")
          /\ resetT' = [rt EXCEPT !.pc = "wait"]
  /\ UNCHANGED <<adm, buffered, now, startedAt, endTime, conf, resolves, db, chanOpen, hasRole,
                 queue, checkT, act, manual, tb, msgs, posted, budget, fired, faults>>

ResetAcquire ==
  /\ resetT.pc = "wait"
  /\ ~resetT.cancel
  /\ IsNext(lock, "reset")
  /\ LET r == ResetEnter(resetT, Grant(lock, "reset")) IN
       /\ resetT' = r.rt
       /\ lock' = r.lock
  /\ UNCHANGED <<adm, buffered, now, startedAt, endTime, conf, resolves, db, chanOpen, hasRole,
                 queue, checkT, act, manual, tb, msgs, posted, budget, fired, faults>>

\* RoleWaiting.filter(is_active=True).all() returns; the for loop starts.
ResetFetch ==
  /\ resetT.pc = "fetch"
  /\ ~resetT.cancel
  /\ LET r == ResetResume([resetT EXCEPT !.recs = db], RowOrder, hasRole) IN
       /\ resetT' = r.rt
       /\ lock' = r.lock
  /\ UNCHANGED <<adm, buffered, now, startedAt, endTime, conf, resolves, db, chanOpen, hasRole,
                 queue, checkT, act, manual, tb, msgs, posted, budget, fired, faults>>

\* The ids left of the inner loop once remove_roles has returned (ok) or
\* raised for the first of `users`: the try of lines 125-130 is inside the loop.
RestAfterRevokeStops(users, roles, ok) ==
  IF ok THEN NextHolder(Tail(users), roles) ELSE <<>>

RestAfterRevoke(users, roles, ok) == NextHolder(Tail(users), roles)

\* The loop of daily_reset goes on with the rows after the current one, or,
\* after an exception only the try of the iteration stops, with none.
ResetNextRow(ok) ==
  LET todo == IF ~ok /\ EndsTick(ResetTries(resetT.pc), "Exception")
              THEN <<>> ELSE resetT.todo
      r == ResetResume([resetT EXCEPT !.cancel = FALSE], todo, hasRole) IN
    /\ resetT' = r.rt
    /\ lock' = r.lock

\* member.remove_roles(role) returns or raises; the inner loop goes on.
ResetRevokeStep(ok) ==
  LET roles == IF ok THEN hasRole \ {Head(resetT.users)} ELSE hasRole
      us == RestAfterRevoke(resetT.users, roles, ok)
  IN /\ hasRole' = roles
     /\ IF ok \/ CaughtAt(ResetTries("revoke"), "Exception") = 1
        THEN /\ resetT' = [resetT EXCEPT !.users = us,
                                         !.tried = @ \cup {Head(resetT.users)},
                                         !.cancel = FALSE,
                                         !.pc = IF us # <<>> THEN "revoke" ELSE "save"]
             /\ lock' = lock
        ELSE ResetNextRow(FALSE)

ResetRevoke ==
  /\ resetT.pc = "revoke"
  /\ ~resetT.cancel
  /\ \E ok \in Outcomes : Charged(ok) /\ ResetRevokeStep(ok)
  /\ UNCHANGED <<adm, buffered, now, startedAt, endTime, conf, resolves, db, chanOpen,
                 queue, checkT, act, manual, tb, msgs, posted, budget, fired>>

\* waiting.given_users = []; waiting.last_triggered = None; save() returns, or
\* raises and the row's try passes over it (line 149).
ResetSaveKeepsUsers(ok) ==
  IF ok
  THEN /\ db' = [db EXCEPT ![resetT.cfg] =
                   [resetT.recs[resetT.cfg] EXCEPT !.last_triggered = NoDate]]
       /\ IF resolves[resetT.cfg] # "no_channel"
          THEN /\ resetT' = [resetT EXCEPT !.pc = "chlock"]
               /\ lock' = lock
          ELSE ResetNextRow(TRUE)
  ELSE /\ db' = db
       /\ ResetNextRow(FALSE)

ResetSaveStep(ok) ==
  IF ok
  THEN /\ db' = [db EXCEPT ![resetT.cfg] =
                   [resetT.recs[resetT.cfg] EXCEPT !.given_users = <<>>,
                                                   !.last_triggered = NoDate]]
       /\ IF resolves[resetT.cfg] # "no_channel"
          THEN /\ resetT' = [resetT EXCEPT !.pc = "chlock"]
               /\ lock' = lock
          ELSE ResetNextRow(TRUE)
  ELSE /\ db' = db
       /\ ResetNextRow(FALSE)

ResetSave ==
  /\ resetT.pc = "save"
  /\ ~resetT.cancel
  /\ \E ok \in StoreOutcomes : Charged(ok) /\ ResetSaveStep(ok)
  /\ UNCHANGED <<adm, buffered, now, startedAt, endTime, conf, resolves, chanOpen, hasRole,
                 queue, checkT, act, manual, tb, msgs, posted, budget, fired>>

\* channel.set_permissions(send_messages=False) returns or raises.
ResetChLockStep(ok) ==
  /\ chanOpen' = IF ok THEN FALSE ELSE chanOpen
  /\ ResetNextRow(ok)

ResetChLock ==
  /\ resetT.pc = "chlock"
  /\ ~resetT.cancel
  /\ \E ok \in Outcomes : Charged(ok) /\ ResetChLockStep(ok)
  /\ UNCHANGED <<adm, buffered, now, startedAt, endTime, conf, resolves, db, hasRole,
                 queue, checkT, act, manual, tb, msgs, posted, budget, fired>>

(***************************************************************************)
(* Cancellation.  cog_unload calls cancel() on both loops; a cancelled     *)
(* task has asyncio.CancelledError raised at the await it is suspended at, *)
(* and the try statements around that await decide where the exception     *)
(* stops.                                                                  *)
(***************************************************************************)
\* The lock once the task p has left it: async with releases it, a cancelled
\* acquire leaves the queue of waiters.
RECURSIVE Dequeued(_, _)
Dequeued(ws, p) ==
  IF ws = <<>> THEN <<>>
  ELSE IF Head(ws) = p THEN Dequeued(Tail(ws), p)
       ELSE <<Head(ws)>> \o Dequeued(Tail(ws), p)

LeaveHolding(l, p) == [holder |-> l.holder, waiters |-> Dequeued(l.waiters, p)]

Leave(l, p) ==
  [holder |-> IF l.holder = p THEN None ELSE l.holder, waiters |-> Dequeued(l.waiters, p)]

\* cog_unload: cancel() is called on each loop that is running.
Unload ==
  /\ checkT.started
  /\ checkT.pc # "stopped" \/ resetT.pc # "stopped"
  /\ ~checkT.cancel /\ ~resetT.cancel
  /\ checkT' = [checkT EXCEPT !.cancel = checkT.pc # "stopped"]
  /\ resetT' = [resetT EXCEPT !.cancel = resetT.pc # "stopped"]
  /\ UNCHANGED <<adm, buffered, now, startedAt, endTime, conf, resolves, db, chanOpen, hasRole,
                 queue, lock, act, manual, tb, msgs, posted, budget, fired, faults>>

\* CancelledError is raised in check_waiting at its await: it leaves the task,
\* which ends, or an except clause stops it and the iteration goes on as
\* after a failed call.
CheckCancelled ==
  /\ checkT.cancel
  /\ IF Propagates(CheckTries(checkT.pc, act["check"].pc), "CancelledError")
     THEN /\ checkT' = [checkT EXCEPT !.pc = "stopped", !.cancel = FALSE,
                                      !.cut = IF checkT.pc = "call"
                                              THEN act["check"].pc ELSE checkT.pc]
          /\ lock' = Leave(lock, "check")
          /\ act' = [act EXCEPT !["check"] =
                       IF checkT.pc = "call"
                       THEN [@ EXCEPT !.pc = "idle", !.out = "cancelled"] ELSE @]
          /\ UNCHANGED <<db, hasRole, queue, buffered, fired, chanOpen, manual>>
     ELSE IF act["check"].pc = "save"
          THEN ActSaveStep("check", FALSE) /\ UNCHANGED chanOpen
          ELSE ActOpenStep("check", FALSE)
               /\ UNCHANGED <<db, hasRole, queue, buffered, fired>>
  /\ UNCHANGED <<adm, now, startedAt, endTime, conf, resolves, resetT, tb, msgs, posted,
                 budget, faults>>

\* The same for daily_reset.
ResetCancelled ==
  /\ resetT.cancel
  /\ IF Propagates(ResetTries(resetT.pc), "CancelledError")
     THEN /\ resetT' = [resetT EXCEPT !.pc = "stopped", !.cancel = FALSE,
                                      !.cut = resetT.pc]
          /\ lock' = Leave(lock, "reset")
          /\ UNCHANGED <<db, hasRole, chanOpen>>
     ELSE IF resetT.pc = "revoke"
          THEN ResetRevokeStep(FALSE) /\ UNCHANGED <<db, chanOpen>>
          ELSE IF resetT.pc = "save"
               THEN ResetSaveStep(FALSE) /\ UNCHANGED <<hasRole, chanOpen>>
               ELSE ResetChLockStep(FALSE) /\ UNCHANGED <<db, hasRole>>
  /\ UNCHANGED <<adm, buffered, now, startedAt, endTime, conf, resolves, queue, checkT, act,
                 manual, tb, msgs, posted, budget, fired, faults>>

(***************************************************************************)
(* The clock.  A sleeping loop wakes when its iteration is due and a       *)
(* released lock passes to its first waiter at once, so a minute ends only *)
(* when no due iteration is still asleep and no waiter is owed the lock; a *)
(* coroutine suspended at an awaited call can stay so for any time.        *)
(***************************************************************************)
Advance ==
  /\ now < endTime
  /\ checkT.pc = "sleep" => checkT.next > now
  /\ resetT.pc = "sleep" => resetT.next > now
  /\ lock.holder = None => lock.waiters = <<>>
  /\ ~checkT.cancel /\ ~resetT.cancel
  /\ now' = now + 1
  /\ UNCHANGED <<adm, buffered, startedAt, endTime, conf, resolves, db, chanOpen, hasRole, queue,
                 lock, checkT, resetT, act, manual, tb, msgs, posted, budget, fired, faults>>


(***************************************************************************)
(* Commands.  A command or a message of a guild reaches the cog only while *)
(* the guild is in the cache.                                              *)
(***************************************************************************)
GuildPresent(c) == resolves[c] # "no_guild"

\* waiting test <id>: the row is fetched, then activate_waiting is called with
\* today's date, whatever last_triggered is and without the lock.
ManualTrigger(c) ==
  /\ manual.pc = "idle"
  /\ budget.manual > 0
  /\ GuildPresent(c)
  /\ budget' = [budget EXCEPT !.manual = @ - 1]
  /\ IF Resolves(c)
     THEN /\ manual' = [manual EXCEPT !.pc = "call", !.cfg = c]
          /\ act' = [act EXCEPT !["manual"] = NewFrame(c, db[c], Date(now))]
     ELSE /\ manual' = IdleCmd
          /\ act' = [act EXCEPT !["manual"] =
                       [IdleFrame EXCEPT !.cfg = c, !.pre = db[c], !.out = "unresolved"]]
  /\ UNCHANGED <<adm, buffered, now, startedAt, endTime, conf, resolves, db, chanOpen, hasRole,
                 queue, lock, checkT, resetT, tb, msgs, posted, fired, faults>>

\* waiting takeback <id>: the row is fetched; with users recorded and the role
\* resolved the revocations start.
TakebackFetch(c) ==
  /\ tb.pc = "idle"
  /\ budget.takeback > 0
  /\ GuildPresent(c)
  /\ budget' = [budget EXCEPT !.takeback = @ - 1]
  /\ IF db[c].given_users = <<>> \/ resolves[c] = "no_role"
     THEN tb' = IdleCmd
     ELSE LET us == NextHolder(db[c].given_users, hasRole) IN
          tb' = [IdleCmd EXCEPT !.pc = IF us # <<>> THEN "revoke" ELSE "save",
                                !.cfg = c, !.rec = db[c], !.users = us]
  /\ UNCHANGED <<adm, buffered, now, startedAt, endTime, conf, resolves, db, chanOpen, hasRole,
                 queue, lock, checkT, resetT, act, manual, msgs, posted, fired, faults>>

\* removed_count += 1 follows the await inside the try.
Removed(n, ok) == IF ok THEN n + 1 ELSE n

\* member.remove_roles(role) returns or raises; the loop goes on.
TakebackRevoke ==
  /\ tb.pc = "revoke"
  /\ \E ok \in Outcomes :
       LET roles == IF ok THEN hasRole \ {Head(tb.users)} ELSE hasRole
           us == NextHolder(Tail(tb.users), roles)
       IN /\ Charged(ok)
          /\ hasRole' = roles
          /\ tb' = [tb EXCEPT !.users = us,
                              !.removed = Removed(@, ok),
                              !.oks = Append(@, ok),
                              !.tried = @ \cup {Head(tb.users)},
                              !.pc = IF us # <<>> THEN "revoke" ELSE "save"]
  /\ UNCHANGED <<adm, buffered, now, startedAt, endTime, conf, resolves, db, chanOpen,
                 queue, lock, checkT, resetT, act, manual, msgs, posted, budget, fired>>

\* waiting.given_users = []; save() writes the row as it was fetched.
TakebackSave ==
  /\ tb.pc = "save"
  /\ db' = Stored(db, tb.cfg, [tb.rec EXCEPT !.given_users = <<>>])
  /\ tb' = IdleCmd
  /\ UNCHANGED <<adm, buffered, now, startedAt, endTime, conf, resolves, chanOpen, hasRole,
                 queue, lock, checkT, resetT, act, manual, msgs, posted, budget, fired, faults>>

\* The hours between two iterations of daily_reset pass.
ResetSleep ==
  /\ resetT.pc = "sleep"
  /\ ~resetT.cancel
  /\ lock.holder = None
  /\ resetT.next > now
  /\ resetT.next <= endTime
  /\ now' = resetT.next
  /\ UNCHANGED <<adm, buffered, startedAt, endTime, conf, resolves, db, chanOpen, hasRole, queue,
                 lock, checkT, resetT, act, manual, tb, msgs, posted, budget, fired, faults>>

(***************************************************************************)
(* The commands on rows.  A command is given in the guild Guild with any   *)
(* id; a message typed in a dialogue is the sequence of the pieces between *)
(* its colons, each a number (what int() returns) or not one.              *)
(***************************************************************************)
\* RoleWaiting.filter(id=waiting_id, guild_id=ctx.guild.id).first()
FoundById(id) == id \in Rows

Found(id) == id \in Rows /\ conf[id].guild = Guild

Num(n) == [num |-> TRUE, val |-> n]
NaN == [num |-> FALSE, val |-> 0]
TimeInputs == {<<Num(4), Num(0)>>, <<Num(LastHour), Num(LastMinute)>>,
               <<Num(LastHour + 1), Num(0)>>, <<Num(4), Num(LastMinute + 1)>>,
               <<Num(-1), Num(0)>>, <<Num(4)>>, <<Num(4), Num(0), Num(0)>>,
               <<NaN, Num(0)>>}
LimitInputs == {Num(0), Num(1), Num(UserLimitMax), Num(UserLimitMax + 1), Num(-1), NaN}

\* hour, minute = map(int, time_str.split(":")); the range test of line 311.
ValidTimeAny(in) == Len(in) = 2 /\ in[1].num /\ in[2].num

ValidTime(in) ==
  /\ Len(in) = 2
  /\ in[1].num /\ in[2].num
  /\ 0 <= in[1].val /\ in[1].val <= LastHour
  /\ 0 <= in[2].val /\ in[2].val <= LastMinute

\* f"{hour:02d}:{minute:02d}"
Formatted(in) == <<in[1].val, in[2].val>>

\* user_limit = int(...); the range test of line 358.
ValidLimit(in) == in.num /\ ~(in.val < 1 \/ in.val > UserLimitMax)

Reply(cmd, kind) == [cmd |-> cmd, kind |-> kind, id |-> "none"]

\* ctx.error(f"No waiting config found with ID `{waiting_id}`!")
NoSuchRow(cmd, id) == [cmd |-> cmd, kind |-> "not_found", id |-> id]

\* The command replies that no row has the id; nothing else happens.
NotFound(cmd, id) ==
  /\ adm' = [adm EXCEPT !.reply = NoSuchRow(cmd, id)]
  /\ UNCHANGED <<buffered, now, startedAt, endTime, conf, resolves, db, chanOpen, hasRole,
                 queue, lock, checkT, resetT, act, manual, tb, msgs, posted, budget,
                 fired, faults>>

\* What wait_test replies once activate_waiting has ended with `out`: the
\* ctx.success of line 834 follows every return of activate_waiting; an
\* exception of its save leaves wait_test before it.
TestReply(out) == IF out = "failed" THEN "error" ELSE "success"

\* waiting test <id> and waiting takeback <id>
WaitTest(id) == IF Found(id) THEN ManualTrigger(id) ELSE NotFound("test", id)

WaitTakeback(id) == IF Found(id) THEN TakebackFetch(id) ELSE NotFound("takeback", id)

\* wait_setup: Guild.get and the count of the guild's rows return; a guild
\* that is not premium and has FreeLimit rows is refused.
GuildRows == {c \in Rows : conf[c].guild = Guild}

Allowed(premium, count) == premium \/ ~(count >= FreeLimit)

SetupCount(d) ==
  /\ adm.setup[d].pc = "idle"
  /\ LET count == Cardinality(GuildRows) IN
     IF Allowed(adm.premium, count)
     THEN adm' = [adm EXCEPT !.setup[d] = [@ EXCEPT !.pc = "time", !.count = count]]
     ELSE adm' = [adm EXCEPT !.setup[d].pc = "done", !.reply = Reply("setup", "limit")]
  /\ UNCHANGED <<buffered, now, startedAt, endTime, conf, resolves, db, chanOpen, hasRole,
                 queue, lock, checkT, resetT, act, manual, tb, msgs, posted, budget,
                 fired, faults>>

\* The channel was given; the message with the time arrives.
SetupTime(d, in) ==
  /\ adm.setup[d].pc = "time"
  /\ IF ValidTime(in)
     THEN adm' = [adm EXCEPT !.setup[d] = [@ EXCEPT !.pc = "limit", !.time = Formatted(in)]]
     ELSE adm' = [adm EXCEPT !.setup[d].pc = "done",
                             !.reply = Reply("setup", "invalid_time")]
  /\ UNCHANGED <<buffered, now, startedAt, endTime, conf, resolves, db, chanOpen, hasRole,
                 queue, lock, checkT, resetT, act, manual, tb, msgs, posted, budget,
                 fired, faults>>

\* The role was given; the message with the user limit arrives.
SetupLimit(d, in) ==
  /\ adm.setup[d].pc = "limit"
  /\ IF ValidLimit(in)
     THEN adm' = [adm EXCEPT !.setup[d] = [@ EXCEPT !.pc = "lock", !.limit = in.val]]
     ELSE adm' = [adm EXCEPT !.setup[d].pc = "done",
                             !.reply = Reply("setup", "invalid_limit")]
  /\ UNCHANGED <<buffered, now, startedAt, endTime, conf, resolves, db, chanOpen, hasRole,
                 queue, lock, checkT, resetT, act, manual, tb, msgs, posted, budget,
                 fired, faults>>

\* A wait_for times out, or the channel, the role or the ping typed is not
\* one: the dialogue ends.
SetupAbort(d) ==
  /\ adm.setup[d].pc \in {"time", "limit"}
  /\ adm' = [adm EXCEPT !.setup[d].pc = "done", !.reply = Reply("setup", "cancelled")]
  /\ UNCHANGED <<buffered, now, startedAt, endTime, conf, resolves, db, chanOpen, hasRole,
                 queue, lock, checkT, resetT, act, manual, tb, msgs, posted, budget,
                 fired, faults>>

\* The ping was given; channel.set_permissions(send_messages=False) returns,
\* or raises and the dialogue ends.
SetupLock(d) ==
  /\ adm.setup[d].pc = "lock"
  /\ \E ok \in Outcomes :
       /\ Charged(ok)
       /\ chanOpen' = IF ok THEN FALSE ELSE chanOpen
       /\ adm' = IF ok THEN [adm EXCEPT !.setup[d].pc = "create"]
                  ELSE [adm EXCEPT !.setup[d].pc = "done",
                                   !.reply = Reply("setup", "lock_failed")]
  /\ UNCHANGED <<buffered, now, startedAt, endTime, conf, resolves, db, hasRole,
                 queue, lock, checkT, resetT, act, manual, tb, msgs, posted, budget,
                 fired>>

\* RoleWaiting.create(...) returns the new row.
SetupCreate(d) ==
  /\ adm.setup[d].pc = "create"
  /\ adm.next <= Len(IdOrder)
  /\ LET c == IdOrder[adm.next] IN
       /\ conf' = conf @@ (c :> [trigger_time |-> adm.setup[d].time,
                                 max_users |-> adm.setup[d].limit, guild |-> Guild])
       /\ db' = db @@ (c :> EmptyRec)
       /\ resolves' = resolves @@ (c :> "all")
       /\ fired' = fired @@ (c :> <<>>)
  /\ adm' = [adm EXCEPT !.setup[d].pc = "done", !.next = @ + 1,
                        !.reply = Reply("setup", "created")]
  /\ UNCHANGED <<buffered, now, startedAt, endTime, chanOpen, hasRole,
                 queue, lock, checkT, resetT, act, manual, tb, msgs, posted, budget,
                 faults>>

\* wait_edit: the row is fetched and shown; the dialogue asks what to edit.
EditFetch(id) ==
  /\ adm.edit.pc = "idle"
  /\ IF Found(id)
     THEN /\ adm.left.edit > 0
          /\ adm' = [adm EXCEPT !.left.edit = @ - 1,
                                !.edit = [pc |-> "choice", cfg |-> id, row |-> conf[id],
                                          rec |-> db[id]]]
     ELSE adm' = [adm EXCEPT !.reply = NoSuchRow("edit", id)]
  /\ UNCHANGED <<buffered, now, startedAt, endTime, conf, resolves, db, chanOpen, hasRole,
                 queue, lock, checkT, resetT, act, manual, tb, msgs, posted, budget,
                 fired, faults>>

\* waiting.save() of wait_edit writes the whole row as fetched, with the
\* edited field.
EditSaved(row) ==
  /\ conf' = Stored(conf, adm.edit.cfg, row)
  /\ db' = Stored(db, adm.edit.cfg, adm.edit.rec)
  /\ adm' = [adm EXCEPT !.edit = NoEdit, !.reply = Reply("edit", "updated")]

\* "time" was chosen; the message with the new time arrives.
EditTime(in) ==
  /\ adm.edit.pc = "choice"
  /\ IF ValidTime(in)
     THEN EditSaved([adm.edit.row EXCEPT !.trigger_time = Formatted(in)])
     ELSE /\ adm' = [adm EXCEPT !.edit = NoEdit, !.reply = Reply("edit", "invalid_time")]
          /\ UNCHANGED <<conf, db>>
  /\ UNCHANGED <<buffered, now, startedAt, endTime, resolves, chanOpen, hasRole,
                 queue, lock, checkT, resetT, act, manual, tb, msgs, posted, budget,
                 fired, faults>>

\* "limit" was chosen; the message with the new limit arrives.
EditLimit(in) ==
  /\ adm.edit.pc = "choice"
  /\ IF ValidLimit(in)
     THEN EditSaved([adm.edit.row EXCEPT !.max_users = in.val])
     ELSE /\ adm' = [adm EXCEPT !.edit = NoEdit, !.reply = Reply("edit", "invalid_limit")]
          /\ UNCHANGED <<conf, db>>
  /\ UNCHANGED <<buffered, now, startedAt, endTime, resolves, chanOpen, hasRole,
                 queue, lock, checkT, resetT, act, manual, tb, msgs, posted, budget,
                 fired, faults>>

\* "cancel" or no option was typed, or a wait_for timed out.
EditAbort ==
  /\ adm.edit.pc = "choice"
  /\ adm' = [adm EXCEPT !.edit = NoEdit, !.reply = Reply("edit", "cancelled")]
  /\ UNCHANGED <<buffered, now, startedAt, endTime, conf, resolves, db, chanOpen, hasRole,
                 queue, lock, checkT, resetT, act, manual, tb, msgs, posted, budget,
                 fired, faults>>

\* wait_delete: the row is fetched, then deleted.
DeleteFetch(id) ==
  /\ adm.del.pc = "idle"
  /\ IF Found(id)
     THEN /\ adm.left.delete > 0
          /\ adm' = [adm EXCEPT !.left.delete = @ - 1,
                                !.del = [pc |-> "delete", cfg |-> id]]
     ELSE adm' = [adm EXCEPT !.reply = NoSuchRow("delete", id)]
  /\ UNCHANGED <<buffered, now, startedAt, endTime, conf, resolves, db, chanOpen, hasRole,
                 queue, lock, checkT, resetT, act, manual, tb, msgs, posted, budget,
                 fired, faults>>

Deleted(table, c) == [r \in DOMAIN table \ {c} |-> table[r]]

DeleteRow ==
  /\ adm.del.pc = "delete"
  /\ conf' = Deleted(conf, adm.del.cfg)
  /\ db' = Deleted(db, adm.del.cfg)
  /\ resolves' = Deleted(resolves, adm.del.cfg)
  /\ fired' = Deleted(fired, adm.del.cfg)
  /\ adm' = [adm EXCEPT !.del = NoDelete, !.reply = Reply("delete", "deleted")]
  /\ UNCHANGED <<buffered, now, startedAt, endTime, chanOpen, hasRole,
                 queue, lock, checkT, resetT, act, manual, tb, msgs, posted, budget,
                 faults>>

(***************************************************************************)
(* wait_takeback_all.  The rows of the guild are fetched once; after the   *)
(* prompt each fetched row with users is taken in turn: the row's role is  *)
(* looked up, the holders among its users lose it, the row is saved.       *)
(***************************************************************************)
RECURSIVE SumUsers(_, _)
SumUsers(rows, recs) ==
  IF rows = <<>> THEN 0
  ELSE Len(recs[Head(rows)].given_users) + SumUsers(Tail(rows), recs)

\* RoleWaiting.filter(guild_id=ctx.guild.id).all(); the two early returns.
TbaFetch ==
  /\ adm.tba.pc = "idle"
  /\ LET rows == SelectSeq(RowOrder, LAMBDA c : conf[c].guild = Guild) IN
     IF rows = <<>>
     THEN adm' = [adm EXCEPT !.tba.pc = "done", !.reply = Reply("takebackall", "no_configs")]
     ELSE IF SumUsers(rows, db) = 0
     THEN adm' = [adm EXCEPT !.tba.pc = "done", !.reply = Reply("takebackall", "no_users")]
     ELSE adm' = [adm EXCEPT !.tba = [NoTba EXCEPT !.pc = "prompt", !.todo = rows,
                                                   !.recs = [c \in SeqToSet(rows) |-> db[c]]]]
  /\ UNCHANGED <<buffered, now, startedAt, endTime, conf, resolves, db, chanOpen, hasRole,
                 queue, lock, checkT, resetT, act, manual, tb, msgs, posted, budget,
                 fired, faults>>

\* The two continue statements of the loop over the rows.
Skipped(c, recs) == recs[c].given_users = <<>> \/ resolves[c] = "no_role"

RECURSIVE TbaSkip(_, _)
TbaSkip(todo, recs) ==
  IF todo = <<>> THEN <<>>
  ELSE IF Skipped(Head(todo), recs) THEN TbaSkip(Tail(todo), recs) ELSE todo

\* The loop goes to the next row that is not skipped, and in it to the first
\* user holding the role; without one the embed is sent.
TbaAt(t, todo) ==
  LET rest == TbaSkip(todo, t.recs) IN
  IF rest = <<>> THEN [t EXCEPT !.pc = "done", !.todo = <<>>, !.users = <<>>]
  ELSE LET us == NextHolder(t.recs[Head(rest)].given_users, hasRole) IN
       [t EXCEPT !.pc = IF us # <<>> THEN "revoke" ELSE "save",
                 !.cfg = Head(rest), !.todo = Tail(rest), !.users = us]

TbaReply(t) == IF t.pc = "done" THEN Reply("takebackall", "completed") ELSE adm.reply

\* ctx.prompt returns the administrator's answer.
TbaPrompt(yes) ==
  /\ adm.tba.pc = "prompt"
  /\ IF yes
     THEN LET t == TbaAt(adm.tba, adm.tba.todo) IN
          adm' = [adm EXCEPT !.tba = t, !.reply = TbaReply(t)]
     ELSE adm' = [adm EXCEPT !.tba.pc = "done", !.reply = Reply("takebackall", "cancelled")]
  /\ UNCHANGED <<buffered, now, startedAt, endTime, conf, resolves, db, chanOpen, hasRole,
                 queue, lock, checkT, resetT, act, manual, tb, msgs, posted, budget,
                 fired, faults>>

\* member.remove_roles(role) returns or raises; total_removed += 1 follows
\* the await inside the try.
TbaRevoke ==
  /\ adm.tba.pc = "revoke"
  /\ \E ok \in Outcomes :
       LET roles == IF ok THEN hasRole \ {Head(adm.tba.users)} ELSE hasRole
           us == NextHolder(Tail(adm.tba.users), roles)
       IN /\ Charged(ok)
          /\ hasRole' = roles
          /\ adm' = [adm EXCEPT !.tba.users = us,
                                !.tba.total = Removed(@, ok),
                                !.tba.oks = Append(@, ok),
                                !.tba.pc = IF us # <<>> THEN "revoke" ELSE "save"]
  /\ UNCHANGED <<buffered, now, startedAt, endTime, conf, resolves, db, chanOpen,
                 queue, lock, checkT, resetT, act, manual, tb, msgs, posted, budget, fired>>

\* waiting.given_users = []; save() writes the row as it was fetched;
\* configs_processed += 1.
TbaSave ==
  /\ adm.tba.pc = "save"
  /\ db' = Stored(db, adm.tba.cfg, [adm.tba.recs[adm.tba.cfg] EXCEPT !.given_users = <<>>])
  /\ LET t == TbaAt([adm.tba EXCEPT !.processed = @ + 1], adm.tba.todo) IN
     adm' = [adm EXCEPT !.tba = t, !.reply = TbaReply(t)]
  /\ UNCHANGED <<buffered, now, startedAt, endTime, conf, resolves, chanOpen, hasRole,
                 queue, lock, checkT, resetT, act, manual, tb, msgs, posted, budget,
                 fired, faults>>

(***************************************************************************)
(* on_message                                                              *)
(***************************************************************************)
\* An on_message invocation: its position, the message, its copy of the row,
\* the split of the closure and the index of the next winner; and for the
\* rows of the channel still to visit with the rows as fetched; and for the
\* properties, given_users as fetched, the number of queue entries the closure
\* saw, call by call whether add_roles returned, its receipt number among the
\* arrivals appended since the activation, and which guard dismissed it.
NoMsg == [pc |-> "none", author |-> "A", ts |-> 0, cfg |-> "c1", rec |-> EmptyRec,
          wins |-> <<>>, losers |-> <<>>, k |-> 0, base |-> <<>>, seen |-> 0,
          oks |-> <<>>, rx |-> 0, out |-> "none", todo |-> <<>>, recs |-> <<>>]
DoneMsg == [NoMsg EXCEPT !.pc = "done"]

\* The configuration whose channel a message is posted in.
CfgOf(ch) == "c1"

\* list.sort(key=lambda x: x[1]): ascending by timestamp, equal timestamps keep
\* their order.
RECURSIVE Insert(_, _)
Insert(sorted, e) ==
  IF sorted = <<>> THEN <<e>>
  ELSE IF sorted[Len(sorted)].ts <= e.ts
       THEN Append(sorted, e)
       ELSE Append(Insert(SubSeq(sorted, 1, Len(sorted) - 1), e), sorted[Len(sorted)])

Unsorted(q) == q

RECURSIVE SortByTs(_)
SortByTs(q) ==
  IF q = <<>> THEN <<>>
  ELSE Insert(SortByTs(SubSeq(q, 1, Len(q) - 1)), q[Len(q)])

Authors(q) == [i \in 1..Len(q) |-> q[i].author]

\* [author for author in all_participants if author not in winners]
RECURSIVE Without(_, _)
Without(all, winners) ==
  IF all = <<>> THEN <<>>
  ELSE IF Head(all) \in SeqToSet(winners)
       THEN Without(Tail(all), winners)
       ELSE <<Head(all)>> \o Without(Tail(all), winners)

WinnersShort(q, max_users) == Authors(SubSeq(q, 1, max_users - 1))

\* [author for author, _ in queue[:waiting.max_users]]
Winners(q, max_users) ==
  Authors(SubSeq(q, 1, IF Len(q) < max_users THEN Len(q) ELSE max_users))

\* A member posts in the channel, which the platform allows while the channel
\* is open; the event is dispatched to on_message.
Post(u) ==
  /\ posted < MaxMsgs
  /\ chanOpen
  /\ GuildPresent(CfgOf(Channel))
  /\ posted' = posted + 1
  /\ msgs' = [msgs EXCEPT ![posted + 1] =
                [NoMsg EXCEPT !.pc = "fetch", !.author = u, !.ts = posted + 1,
                              !.cfg = CfgOf(Channel)]]
  /\ UNCHANGED <<adm, buffered, now, startedAt, endTime, conf, resolves, db, chanOpen, hasRole,
                 queue, lock, checkT, resetT, act, manual, tb, budget, fired, faults>>

IgnoredUnlessRecorded(m, rec) ==
  \/ rec.last_triggered # Date(now)
  \/ resolves[m.cfg] = "no_role"
  \/ m.author \in SeqToSet(rec.given_users)

\* The message is ignored: not triggered today, role unresolved, the author
\* holds the role (a DM is sent) or is recorded in given_users.
Ignored(m, rec) ==
  \/ rec.last_triggered # Date(now)
  \/ resolves[m.cfg] = "no_role"
  \/ m.author \in hasRole
  \/ m.author \in SeqToSet(rec.given_users)

\* The handler of a dismissed message has ended.
Dismissed(m, rec) ==
  IF rec.last_triggered # Date(now) \/ resolves[m.cfg] = "no_role"
  THEN DoneMsg
  ELSE [DoneMsg EXCEPT !.author = m.author,
                       !.out = IF m.author \in hasRole THEN "holder" ELSE "recorded"]

\* The threshold test of line 885.
ReachedEarly(q, max_users) == Len(q) + 1 >= max_users

ReachedLate(q, max_users) == Len(q) > max_users

Reached(q, max_users) == Len(q) >= max_users

\* The loop over the fetched rows of the channel (line 855), from the first
\* of `rows` up to its next await or its end: a row is passed over, or the
\* message is appended to the queue q of the channel, and with the limit of
\* the row reached the channel lock is requested.  n entries were appended.
RECURSIVE Visit(_, _, _, _, _)
Visit(m, rows, recs, q, n) ==
  IF rows = <<>> THEN [m |-> DoneMsg, q |-> q, n |-> n]
  ELSE LET c == Head(rows) IN
       IF Ignored([m EXCEPT !.cfg = c], recs[c])
       THEN Visit(m, Tail(rows), recs, q, n)
       ELSE LET q1 == Append(q, [author |-> m.author, ts |-> m.ts]) IN
            IF Reached(q1, conf[c].max_users)
            THEN [m |-> [NoMsg EXCEPT !.pc = "lock", !.author = m.author, !.ts = m.ts,
                                      !.cfg = c, !.rec = recs[c],
                                      !.base = recs[c].given_users,
                                      !.rx = buffered + n + 1,
                                      !.todo = Tail(rows),
                                      !.recs = IF Tail(rows) = <<>> THEN <<>> ELSE recs],
                  q |-> q1, n |-> n + 1]
            ELSE Visit(m, Tail(rows), recs, q1, n + 1)

\* RoleWaiting.filter(...).all() returns the rows of the channel; the loop
\* over them starts.
MsgFetch(i) ==
  /\ msgs[i].pc = "fetch"
  /\ LET m == msgs[i]
         v == Visit(m, RowOrder, db, QueueOf(queue, Channel), 0)
     IN /\ msgs' = [msgs EXCEPT ![i] = IF v.n = 0 THEN Dismissed(m, db[m.cfg]) ELSE v.m]
        /\ queue' = IF v.n = 0 THEN queue ELSE (Channel :> v.q)
        /\ buffered' = buffered + v.n
  /\ UNCHANGED <<adm, now, startedAt, endTime, conf, resolves, db, chanOpen, hasRole,
                 lock, checkT, resetT, act, manual, tb, posted, budget, fired, faults>>

\* The handler once set_permissions has returned (ok) or raised: the except
\* of lines 893-894 passes, the queue q is split and the first grant is
\* requested.
ClosingOnlyLocked(m, q, ok) ==
  IF ok
  THEN LET wins == Winners(q, conf[m.cfg].max_users) IN
       [m EXCEPT !.pc = IF wins # <<>> THEN "grant" ELSE "save",
                 !.wins = wins, !.k = 1, !.seen = Len(q),
                 !.losers = Without(Authors(q), wins)]
  ELSE DoneMsg

Closing(m, q, ok) ==
  LET wins == Winners(q, conf[m.cfg].max_users) IN
  [m EXCEPT !.pc = IF wins # <<>> THEN "grant" ELSE "save",
            !.wins = wins, !.k = 1, !.seen = Len(q),
            !.losers = Without(Authors(q), wins),
            !.out = IF ok THEN "locked" ELSE "lock_failed"]

\* set_permissions(send_messages=False) returns or raises; the queue is sorted
\* in place and split, and the first grant is requested.
MsgLock(i) ==
  /\ msgs[i].pc = "lock"
  /\ LET q == SortByTs(QueueOf(queue, Channel)) IN
     \E ok \in Outcomes :
       /\ Charged(ok)
       /\ chanOpen' = IF ok THEN FALSE ELSE chanOpen
       /\ queue' = (Channel :> q)
       /\ msgs' = [msgs EXCEPT ![i] = Closing(msgs[i], q, ok)]
  /\ UNCHANGED <<adm, buffered, now, startedAt, endTime, conf, resolves, db, hasRole,
                 lock, checkT, resetT, act, manual, tb, posted, budget, fired>>

\* given_users after add_roles has returned (ok) or raised for winner w:
\* the append of line 907 follows the call inside the try.
RecordedAlways(users, w, ok) == Append(users, w)

Recorded(users, w, ok) == IF ok THEN Append(users, w) ELSE users

\* winner.add_roles(role) returns, and the id is recorded, or raises.
MsgGrant(i) ==
  /\ msgs[i].pc = "grant"
  /\ LET m == msgs[i]
         w == m.wins[m.k]
     IN \E ok \in Outcomes :
          /\ Charged(ok)
          /\ hasRole' = IF ok THEN hasRole \cup {w} ELSE hasRole
          /\ msgs' = [msgs EXCEPT ![i] =
                        [m EXCEPT !.rec.given_users = Recorded(@, w, ok),
                                  !.k = @ + 1,
                                  !.oks = Append(@, ok),
                                  !.pc = IF m.k < Len(m.wins) THEN "grant" ELSE "save"]]
  /\ UNCHANGED <<adm, buffered, now, startedAt, endTime, conf, resolves, db, chanOpen,
                 queue, lock, checkT, resetT, act, manual, tb, posted, budget, fired>>

\* waiting.save() writes the handler's copy of the row, or raises and ends
\* the handler.
MsgSave(i) ==
  /\ msgs[i].pc = "save"
  /\ \E ok \in StoreOutcomes :
       /\ Charged(ok)
       /\ db' = IF ok THEN Stored(db, msgs[i].cfg, msgs[i].rec) ELSE db
       /\ msgs' = [msgs EXCEPT ![i] = IF ok THEN [@ EXCEPT !.pc = "announce"] ELSE DoneMsg]
  /\ UNCHANGED <<adm, buffered, now, startedAt, endTime, conf, resolves, chanOpen, hasRole,
                 queue, lock, checkT, resetT, act, manual, tb, posted, budget, fired>>

\* The results are sent, the queue is cleared and the loop goes on with the
\* next row; a send that raises ends the handler before line 943.
MsgAnnounce(i) ==
  /\ msgs[i].pc = "announce"
  /\ \E ok \in Outcomes :
       LET v == Visit(msgs[i], msgs[i].todo, msgs[i].recs, <<>>, 0) IN
         /\ Charged(ok)
         /\ queue' = IF ok THEN (Channel :> v.q) ELSE queue
         /\ buffered' = IF ok THEN buffered + v.n ELSE buffered
         /\ msgs' = [msgs EXCEPT ![i] = IF ok THEN v.m ELSE DoneMsg]
  /\ UNCHANGED <<adm, now, startedAt, endTime, conf, resolves, db, chanOpen, hasRole,
                 lock, checkT, resetT, act, manual, tb, posted, budget, fired>>

(***************************************************************************)
(* Specifications.                                                         *)
(***************************************************************************)
\* The state once both loops have been started at one of `starts`: the store
\* holds what an earlier day left, nothing is in progress.
InitWith(starts, elapsed, triggers, kinds, nmanual, ntakeback) ==
  /\ startedAt \in starts
  /\ now = startedAt
  /\ endTime = startedAt + elapsed
  /\ conf \in [Cfgs -> [trigger_time : triggers, max_users : UserLimits, guild : {Guild}]]
  /\ resolves \in [Cfgs -> kinds]
  /\ db \in [Cfgs -> InitRecs]
  /\ chanOpen = FALSE
  /\ hasRole = UNION {SeqToSet(db[c].given_users) : c \in Cfgs}
  /\ queue = <<>>
  /\ lock = [holder |-> None, waiters |-> <<>>]
  /\ checkT = [IdleCheck(startedAt, FALSE) EXCEPT !.started = FALSE]
  /\ resetT = IdleReset(startedAt, NoDate, {})
  /\ act = [w \in {"check", "manual"} |-> IdleFrame]
  /\ manual = IdleCmd
  /\ tb = IdleCmd
  /\ msgs = [i \in 1..(MaxMsgs + 1) |-> NoMsg]
  /\ posted = 0
  /\ buffered = 0
  /\ budget = [manual |-> nmanual, takeback |-> ntakeback, store |-> FALSE]
  /\ fired = [c \in Cfgs |-> <<>>]
  /\ faults = 0
  /\ adm = IdleAdm

Timers ==
  \/ CheckWake
  \/ CheckAcquire
  \/ CheckFetch
  \/ ActSave("check")
  \/ ActOpen("check")
  \/ ResetWake
  \/ ResetAcquire
  \/ ResetFetch
  \/ ResetRevoke
  \/ ResetSave
  \/ ResetChLock
  \/ Advance

GateTimers ==
  \/ CheckWake
  \/ CheckFetch
  \/ ActSave("check")
  \/ ActOpen("check")
  \/ ResetWake
  \/ ResetAcquire
  \/ ResetFetch
  \/ ResetRevoke
  \/ ResetSave
  \/ ResetChLock

GateCommands ==
  \/ \E c \in Cfgs : ManualTrigger(c)
  \/ ActSave("manual")
  \/ ActOpen("manual")

Commands ==
  \/ \E c \in Cfgs : ManualTrigger(c)
  \/ ActSave("manual")
  \/ ActOpen("manual")
  \/ \E c \in Cfgs : TakebackFetch(c)
  \/ TakebackRevoke
  \/ TakebackSave

Messages ==
  \/ \E u \in Users : Post(u)
  \/ \E i \in 1..MaxMsgs : MsgFetch(i)
  \/ \E i \in 1..MaxMsgs : MsgLock(i)
  \/ \E i \in 1..MaxMsgs : MsgGrant(i)
  \/ \E i \in 1..MaxMsgs : MsgSave(i)
  \/ \E i \in 1..MaxMsgs : MsgAnnounce(i)

\* The two loops and the administrators' commands over MaxElapsed minutes.
Init == InitWith(StartTimes, MaxElapsed, TriggerTimes, ResolveKinds, MaxManual, MaxTakeback)
Next == Timers \/ Commands
Spec == Init /\ [][Next]_vars

\* The two loops alone over SchedElapsed minutes.
SchedInit == InitWith(SchedStartTimes, SchedElapsed, TriggerTimes, ResolveKinds, 0, 0)
SchedSpec == SchedInit /\ [][Timers]_vars

\* The commands on rows given in Guild, whose rows and those of another
\* guild are in the table; no loop runs and no message arrives.
AdminRowSets == {{"c1"}, {"c1", "c2"}}
AdminInitWith(recs, nedit, ndelete) ==
  /\ startedAt \in StartTimes
  /\ now = startedAt
  /\ endTime = startedAt
  /\ \E rows \in AdminRowSets :
       /\ conf \in [rows -> [trigger_time : {<<4, 0>>}, max_users : {1},
                             guild : {Guild, "g2"}]]
       /\ resolves = [c \in rows |-> "all"]
       /\ db \in [rows -> recs]
       /\ fired = [c \in rows |-> <<>>]
  /\ chanOpen = FALSE
  /\ hasRole = UNION {SeqToSet(db[c].given_users) : c \in DOMAIN db}
  /\ queue = <<>>
  /\ lock = [holder |-> None, waiters |-> <<>>]
  /\ checkT = [IdleCheck(startedAt, FALSE) EXCEPT !.started = FALSE]
  /\ resetT = IdleReset(startedAt, NoDate, {})
  /\ act = [w \in {"check", "manual"} |-> IdleFrame]
  /\ manual = IdleCmd
  /\ tb = IdleCmd
  /\ msgs = [i \in 1..(MaxMsgs + 1) |-> NoMsg]
  /\ posted = 0
  /\ buffered = 0
  /\ budget = [manual |-> MaxManual, takeback |-> MaxTakeback, store |-> FALSE]
  /\ faults = 0
  /\ \E p \in BOOLEAN :
       adm = [IdleAdm EXCEPT !.premium = p, !.next = 3,
                             !.left = [edit |-> nedit, delete |-> ndelete]]

\* One setup dialogue, one edit dialogue and one deletion, with every input.
AdminInit == AdminInitWith({EmptyRec}, MaxEdits, MaxDeletes)

AdminNext ==
  \/ SetupCount(1)
  \/ \E in \in TimeInputs : SetupTime(1, in)
  \/ \E in \in LimitInputs : SetupLimit(1, in)
  \/ SetupAbort(1)
  \/ SetupLock(1)
  \/ SetupCreate(1)
  \/ \E id \in SeqToSet(IdOrder) : EditFetch(id)
  \/ \E in \in TimeInputs : EditTime(in)
  \/ \E in \in LimitInputs : EditLimit(in)
  \/ EditAbort
  \/ \E id \in SeqToSet(IdOrder) : DeleteFetch(id)
  \/ DeleteRow

AdminSpec == AdminInit /\ [][AdminNext]_vars

\* Two setup dialogues at once and one deletion.
SetupInit == AdminInitWith({EmptyRec}, 0, MaxDeletes)
SetupNext ==
  \/ \E d \in Dialogues : SetupCount(d)
  \/ \E d \in Dialogues : SetupTime(d, <<Num(4), Num(0)>>)
  \/ \E d \in Dialogues : SetupLimit(d, Num(1))
  \/ \E d \in Dialogues : SetupAbort(d)
  \/ \E d \in Dialogues : SetupLock(d)
  \/ \E d \in Dialogues : SetupCreate(d)
  \/ \E id \in SeqToSet(IdOrder) : DeleteFetch(id)
  \/ DeleteRow

SetupSpec == SetupInit /\ [][SetupNext]_vars

\* waiting takebackall in Guild, over rows of it and of another guild whose
\* roles resolve or not.
TbaInit ==
  /\ startedAt \in StartTimes
  /\ now = startedAt
  /\ endTime = startedAt
  /\ conf \in [TwoRows -> [trigger_time : {<<4, 0>>}, max_users : {2},
                           guild : {Guild, "g2"}]]
  /\ resolves \in [TwoRows -> {"all", "no_role"}]
  /\ db \in [TwoRows -> [given_users : {<<>>, <<"A">>, <<"A", "B">>},
                         last_triggered : {<<FirstDay>>}]]
  /\ chanOpen = FALSE
  /\ hasRole \in SUBSET Users
  /\ queue = <<>>
  /\ lock = [holder |-> None, waiters |-> <<>>]
  /\ checkT = [IdleCheck(startedAt, FALSE) EXCEPT !.started = FALSE]
  /\ resetT = IdleReset(startedAt, NoDate, {})
  /\ act = [w \in {"check", "manual"} |-> IdleFrame]
  /\ manual = IdleCmd
  /\ tb = IdleCmd
  /\ msgs = [i \in 1..(MaxMsgs + 1) |-> NoMsg]
  /\ posted = 0
  /\ buffered = 0
  /\ budget = [manual |-> 0, takeback |-> 0, store |-> FALSE]
  /\ fired = [c \in TwoRows |-> <<>>]
  /\ faults = 0
  /\ adm = [IdleAdm EXCEPT !.next = 3]

TbaNext ==
  \/ TbaFetch
  \/ \E yes \in BOOLEAN : TbaPrompt(yes)
  \/ TbaRevoke
  \/ TbaSave

TbaSpec == TbaInit /\ [][TbaNext]_vars

\* daily_reset alone over ResetDays days from its start at 04:00, on a table
\* of two rows: no row is activated and no command is given in between.
ResetInit ==
  /\ startedAt \in StartTimes
  /\ now = startedAt
  /\ endTime = startedAt + ResetDays * MinutesPerDay
  /\ conf \in [TwoRows -> [trigger_time : {<<4, 0>>}, max_users : {2}, guild : {Guild}]]
  /\ resolves \in [TwoRows -> ResolveKinds]
  /\ db \in [TwoRows -> InitRecs]
  /\ chanOpen \in BOOLEAN
  /\ hasRole = UNION {SeqToSet(db[c].given_users) : c \in TwoRows}
  /\ queue = <<>>
  /\ lock = [holder |-> None, waiters |-> <<>>]
  /\ checkT = IdleCheck(endTime + 1, FALSE)
  /\ resetT = IdleReset(startedAt, NoDate, {})
  /\ act = [w \in {"check", "manual"} |-> IdleFrame]
  /\ manual = IdleCmd
  /\ tb = IdleCmd
  /\ msgs = [i \in 1..(MaxMsgs + 1) |-> NoMsg]
  /\ posted = 0
  /\ buffered = 0
  /\ budget = [manual |-> 0, takeback |-> 0, store |-> FALSE]
  /\ fired = [c \in TwoRows |-> <<>>]
  /\ faults = 0
  /\ adm = [IdleAdm EXCEPT !.next = 3]

ResetNext ==
  \/ ResetWake
  \/ ResetFetch
  \/ ResetRevoke
  \/ ResetSave
  \/ ResetChLock
  \/ ResetSleep

ResetSpec == ResetInit /\ [][ResetNext]_vars

\* The commands that take the id of a row.
LookupInit ==
  AdminInitWith({[given_users |-> <<>>, last_triggered |-> NoDate],
                 [given_users |-> <<"A">>, last_triggered |-> <<FirstDay>>]},
                MaxEdits, MaxDeletes)
LookupIds == {"c1", "c2", "c3"}
LookupNext ==
  \/ \E id \in LookupIds : EditFetch(id)
  \/ EditTime(<<Num(LastHour), Num(LastMinute)>>)
  \/ EditAbort
  \/ \E id \in LookupIds : DeleteFetch(id)
  \/ DeleteRow
  \/ \E id \in LookupIds : WaitTest(id)
  \/ ActSave("manual")
  \/ ActOpen("manual")
  \/ \E id \in LookupIds : WaitTakeback(id)
  \/ TakebackRevoke
  \/ TakebackSave

LookupSpec == LookupInit /\ [][LookupNext]_vars

\* The two loops over StopElapsed minutes, unloaded at any moment.
StopInit == InitWith(StartTimes, StopElapsed, GateTriggerTimes, {"all"}, 0, 0)
StopNext == Timers \/ Unload \/ CheckCancelled \/ ResetCancelled
StopSpec == StopInit /\ [][StopNext]_vars

\* The two loops over RowsElapsed minutes on a table of two rows set up on
\* the same channel and role; a row can have a trigger_time that does not
\* parse or a guild that does not resolve, and a call to the store can fail.
RowsInit ==
  /\ startedAt \in StartTimes
  /\ now = startedAt
  /\ endTime = startedAt + RowsElapsed
  /\ conf \in [TwoRows -> [trigger_time : {<<ResetHour, 0>>, <<ResetHour>>},
                           max_users : {1}, guild : {Guild}]]
  /\ resolves \in [TwoRows -> {"all", "no_guild"}]
  /\ db \in [TwoRows -> {[given_users |-> <<>>, last_triggered |-> <<FirstDay - 1>>],
                         [given_users |-> <<"A">>, last_triggered |-> <<FirstDay - 1>>]}]
  /\ chanOpen = FALSE
  /\ hasRole = UNION {SeqToSet(db[c].given_users) : c \in TwoRows}
  /\ queue = <<>>
  /\ lock = [holder |-> None, waiters |-> <<>>]
  /\ checkT = [IdleCheck(startedAt, FALSE) EXCEPT !.started = FALSE]
  /\ resetT = IdleReset(startedAt, NoDate, {})
  /\ act = [w \in {"check", "manual"} |-> IdleFrame]
  /\ manual = IdleCmd
  /\ tb = IdleCmd
  /\ msgs = [i \in 1..(MaxMsgs + 1) |-> NoMsg]
  /\ posted = 0
  /\ buffered = 0
  /\ budget = [manual |-> 0, takeback |-> 0, store |-> TRUE]
  /\ fired = [c \in TwoRows |-> <<>>]
  /\ faults = 0
  /\ adm = IdleAdm

RowsSpec == RowsInit /\ [][Timers]_vars

\* The two loops on a table of two rows, with calls to the store and to the
\* platform that raise, and the cog unloaded at any moment.
LockSpec == RowsInit /\ [][StopNext]_vars

\* The minute in which the loops start, with members posting in the channel.
GateInit == InitWith(StartTimes, 0, GateTriggerTimes, {"all"}, MaxManual, 0)
GateNext == GateTimers \/ GateCommands \/ Messages
GateSpec == GateInit /\ [][GateNext]_vars

\* A closure about to sort and split a queue: the members SplitUsers have
\* posted, with created_at values that can coincide, the handlers have appended
\* the messages in any order, and the handler of the last one appended has
\* requested the channel lock.
SplitUsers == {"A", "B", "C"}
SplitEntries == [author : SplitUsers, ts : 1..SplitStamps]
SplitQueues == UNION {[1..n -> SplitEntries] : n \in 1..SplitLen}

SplitInit ==
  /\ startedAt = At(FirstDay, ResetHour, 0)
  /\ now = startedAt
  /\ endTime = startedAt
  /\ conf \in [Cfgs -> [trigger_time : {<<ResetHour, 0>>}, max_users : UserLimits, guild : {Guild}]]
  /\ resolves = [c \in Cfgs |-> "all"]
  /\ db = [c \in Cfgs |-> [given_users |-> <<>>, last_triggered |-> Date(now)]]
  /\ chanOpen = TRUE
  /\ hasRole = {}
  /\ queue \in {(Channel :> q) : q \in SplitQueues}
  /\ Reached(queue[Channel], conf[CfgOf(Channel)].max_users)
  /\ lock = [holder |-> None, waiters |-> <<>>]
  /\ checkT = IdleCheck(startedAt + CheckPeriod, FALSE)
  /\ resetT = IdleReset(startedAt + ResetPeriod, Date(now), {})
  /\ act = [w \in {"check", "manual"} |-> IdleFrame]
  /\ manual = IdleCmd
  /\ tb = IdleCmd
  /\ msgs = [i \in 1..(MaxMsgs + 1) |->
               IF i = 1
               THEN LET q == queue[Channel] IN
                    [NoMsg EXCEPT !.pc = "lock", !.author = q[Len(q)].author,
                                  !.ts = q[Len(q)].ts, !.rec = db[CfgOf(Channel)]]
               ELSE NoMsg]
  /\ posted = MaxMsgs
  /\ buffered = Len(queue[Channel])
  /\ budget = [manual |-> 0, takeback |-> 0, store |-> FALSE]
  /\ fired = [c \in Cfgs |-> <<Date(now)>>]
  /\ faults = 0
  /\ adm = IdleAdm

\* The channel is open on a row activated today, nothing is queued; the row
\* records any of the members and any of them hold the role (a role is also
\* given and taken by hand).
ArrivalInitWith(t, dates, nfaults, nmanual) ==
  /\ startedAt = t
  /\ now = startedAt
  /\ endTime = startedAt
  /\ conf \in [Cfgs -> [trigger_time : {<<ResetHour, 0>>}, max_users : UserLimits, guild : {Guild}]]
  /\ resolves = [c \in Cfgs |-> "all"]
  /\ db \in [Cfgs -> {[r EXCEPT !.last_triggered = d] : r \in InitRecs, d \in dates}]
  /\ chanOpen = TRUE
  /\ hasRole \in SUBSET Users
  /\ queue = (Channel :> <<>>)
  /\ lock = [holder |-> None, waiters |-> <<>>]
  /\ checkT = IdleCheck(startedAt + CheckPeriod, FALSE)
  /\ resetT = IdleReset(startedAt + ResetPeriod, Date(now), {})
  /\ act = [w \in {"check", "manual"} |-> IdleFrame]
  /\ manual = IdleCmd
  /\ tb = IdleCmd
  /\ msgs = [i \in 1..(MaxMsgs + 1) |-> NoMsg]
  /\ posted = 0
  /\ buffered = 0
  /\ budget = [manual |-> nmanual, takeback |-> 0, store |-> FALSE]
  /\ fired = [c \in Cfgs |-> <<db[c].last_triggered>>]
  /\ faults = nfaults
  /\ adm = IdleAdm

ArrivalInit == ArrivalInitWith(At(FirstDay, ResetHour, 0), {<<FirstDay>>}, 0, 0)
ArrivalSpec == ArrivalInit /\ [][Messages]_vars

\* The same with every call returning, the messages handled one after the
\* other and the row activated again by hand while no message is handled.
Quiet == \A i \in 1..MaxMsgs : msgs[i].pc \in {"none", "done"}

SerialPost(u) == Quiet /\ manual.pc = "idle" /\ Post(u)

SerialTrigger(c) == Quiet /\ ManualTrigger(c)

SerialInit == ArrivalInitWith(At(FirstDay, ResetHour, 0), {<<FirstDay>>}, MaxFaults, MaxManual)
SerialNext ==
  \/ \E u \in Users : SerialPost(u)
  \/ \E i \in 1..MaxMsgs : MsgFetch(i)
  \/ \E i \in 1..MaxMsgs : MsgLock(i)
  \/ \E i \in 1..MaxMsgs : MsgGrant(i)
  \/ \E i \in 1..MaxMsgs : MsgSave(i)
  \/ \E i \in 1..MaxMsgs : MsgAnnounce(i)
  \/ \E c \in Cfgs : SerialTrigger(c)
  \/ ActSave("manual")
  \/ ActOpen("manual")

SerialSpec == SerialInit /\ [][SerialNext]_vars

\* The channel was opened on FirstDay, or after midnight, and is still open
\* at 00:00 of the next day.
MidnightInit == ArrivalInitWith(At(FirstDay + 1, 0, 0), {<<FirstDay>>, <<FirstDay + 1>>}, 0, 0)
MidnightSpec == MidnightInit /\ [][Messages]_vars

\* Two rows set up on the same channel and role, both activated today.
SharedInit ==
  /\ startedAt = At(FirstDay, ResetHour, 0)
  /\ now = startedAt
  /\ endTime = startedAt
  /\ conf \in [TwoRows -> [trigger_time : {<<ResetHour, 0>>}, max_users : UserLimits,
                           guild : {Guild}]]
  /\ resolves = [c \in TwoRows |-> "all"]
  /\ db \in [TwoRows -> {[r EXCEPT !.last_triggered = Date(now)] : r \in InitRecs}]
  /\ chanOpen = TRUE
  /\ hasRole \in SUBSET Users
  /\ queue = (Channel :> <<>>)
  /\ lock = [holder |-> None, waiters |-> <<>>]
  /\ checkT = IdleCheck(startedAt + CheckPeriod, FALSE)
  /\ resetT = IdleReset(startedAt + ResetPeriod, Date(now), {})
  /\ act = [w \in {"check", "manual"} |-> IdleFrame]
  /\ manual = IdleCmd
  /\ tb = IdleCmd
  /\ msgs = [i \in 1..(MaxMsgs + 1) |-> NoMsg]
  /\ posted = 0
  /\ buffered = 0
  /\ budget = [manual |-> 0, takeback |-> 0, store |-> FALSE]
  /\ fired = [c \in TwoRows |-> <<Date(now)>>]
  /\ faults = 0
  /\ adm = [IdleAdm EXCEPT !.next = 3]

SharedSpec == SharedInit /\ [][Messages]_vars

SplitNext ==
  \/ \E i \in 1..MaxMsgs : MsgLock(i)
  \/ \E i \in 1..MaxMsgs : MsgGrant(i)
  \/ \E i \in 1..MaxMsgs : MsgSave(i)
  \/ \E i \in 1..MaxMsgs : MsgAnnounce(i)

SplitSpec == SplitInit /\ [][SplitNext]_vars

(***************************************************************************)
(* Properties.                                                             *)
(***************************************************************************)
\* The iteration is inside its async with self._task_lock body.
InCheckBody == checkT.pc \in {"fetch", "call"}
InResetBody == resetT.pc \in {"fetch", "revoke", "save", "chlock"}
Callers == {"check", "manual"}

\* C1: the check iteration and the reset iteration are never both inside
\* their lock-protected bodies, so an activation started by check_waiting
\* never runs while a reset is between its first read and its last write.
C1_TicksExclusive ==
  /\ ~(InCheckBody /\ InResetBody)
  /\ act["check"].pc # "idle" => ~InResetBody

\* A reset is inside its body, rows fetched, while a check iteration that came
\* due is kept waiting for the lock.
C1_Witness == resetT.pc \in {"revoke", "save", "chlock"} /\ checkT.pc = "wait"

\* C2: given_users of a row never holds the ids of more than max_users
\* participants.
C2_AtMostMaxUsers ==
  \A c \in Cfgs : Cardinality(SeqToSet(db[c].given_users)) <= conf[c].max_users

\* C3: no id occurs twice in given_users of a row.
C3_NoDuplicateGrant ==
  \A c \in Cfgs : Cardinality(SeqToSet(db[c].given_users)) = Len(db[c].given_users)

\* C4: check_waiting persists at most one activation of a row per date.
C4_NoDoubleFire ==
  \A c \in Cfgs : \A i, j \in 1..Len(fired[c]) : fired[c][i] = fired[c][j] => i = j

\* The trigger instant of row c on the current date.
TriggerToday(c) ==
  LET t == ParseTrigger(conf[c].trigger_time) IN At(Day(now), t.hour, t.minute)

\* The check loop has fired every 60 seconds: no iteration ran past the start
\* of the next one.
CheckOnSchedule == ~checkT.overran /\ (InCheckBody => now <= checkT.next)

\* C5: with the check loop firing every 60 seconds, once the trigger minute of
\* a resolvable row is over and no check iteration that read the clock in that
\* minute is still running, the row has been activated on that date (the loops
\* running since before that minute).
C5_NoSkip ==
  \A c \in Cfgs :
    (/\ CheckOnSchedule
     /\ now > TriggerToday(c)
     /\ startedAt <= TriggerToday(c)
     /\ Resolves(c)
     /\ db[c].last_triggered # Date(now)
     /\ ~(InCheckBody /\ checkT.cnow = TriggerToday(c)))
    => \E i \in 1..Len(fired[c]) : fired[c][i] = Date(now)

\* C6: once the window 04:00-04:04 of a date is over, the loops running since
\* before it began and the check loop never holding the lock for a minute,
\* daily_reset has reset on that date.
C6_ResetEveryDay ==
  (/\ CheckOnSchedule
   /\ now >= At(Day(now), ResetHour, ResetWindow)
   /\ startedAt <= At(Day(now), ResetHour, 0))
  => resetT.ran = Date(now)

\* C7: activate_waiting writes the row with given_users empty and
\* last_triggered the caller's date and replaces the channel's queue by an
\* empty one, and when the permission change succeeds it leaves the channel
\* open.
C7_ActivationEffect ==
  [][\A w \in Callers :
       /\ (act[w].pc = "save" /\ act'[w].pc = "open")
            => /\ db'[act[w].cfg].given_users = <<>>
               /\ db'[act[w].cfg].last_triggered = act[w].date
               /\ Channel \in DOMAIN queue'
               /\ queue'[Channel] = <<>>
       /\ (act[w].pc = "open" /\ act'[w].pc = "idle" /\ act'[w].out = "opened")
            => chanOpen']_vars

\* An activation has succeeded on a row that had users recorded, replacing a
\* queue that held entries.
C7_Witness ==
  \E w \in Callers :
    /\ act[w].pc = "idle"
    /\ act[w].out = "opened"
    /\ act[w].dropped > 0
    /\ act[w].pre.given_users # <<>>
    /\ db[act[w].cfg] = [given_users |-> <<>>, last_triggered |-> act[w].date]
    /\ chanOpen
    /\ QueueOf(queue, Channel) = <<>>

\* C8: an activation that ends because the permission change is refused, or
\* because guild, channel or role does not resolve, leaves the stored row as
\* it was when the activation was called.
C8_AbortLeavesRecord ==
  [][\A w \in Callers :
       (act'[w] # act[w] /\ act'[w].pc = "idle" /\ act'[w].out \in {"refused", "unresolved"})
         => db'[act'[w].cfg] = act'[w].pre]_vars

\* C9: the waiting test command starts the activation whatever last_triggered
\* is, the activation stores given_users empty, and no step of it changes who
\* holds the role.
C9_ManualTrigger ==
  [][act'["manual"] # act["manual"] =>
       /\ hasRole' = hasRole
       /\ (act["manual"].pc = "idle" /\ Resolves(act'["manual"].cfg))
            => act'["manual"].pc = "save"
       /\ act["manual"].pc = "save" => db'[act["manual"].cfg].given_users = <<>>]_vars

\* A manual trigger has gone through on a row already triggered on that date
\* whose recorded users hold the role: the row forgets them, they keep the role.
C9_Witness ==
  LET f == act["manual"] IN
    /\ f.pc = "idle"
    /\ f.out = "opened"
    /\ f.pre.last_triggered = f.date
    /\ f.pre.given_users # <<>>
    /\ SeqToSet(f.pre.given_users) \subseteq hasRole
    /\ db[f.cfg].given_users = <<>>
    /\ chanOpen

\* C10: no activation called by the waiting test command is in progress while
\* a check or reset iteration is inside its lock-protected body.
C10_ManualUnderLock ==
  act["manual"].pc # "idle" => ~(InCheckBody \/ InResetBody)

\* The row as daily_reset leaves it in the store.
ResetRec == [given_users |-> <<>>, last_triggered |-> NoDate]

\* C11 as stated: when an iteration of daily_reset that ran inside the window
\* ends, every row whose guild resolves is stored with given_users empty and
\* last_triggered None, and its channel, if it resolves, is closed.
C11_ResetPostcondition ==
  [][(InResetBody /\ resetT'.pc = "sleep")
       => \A c \in Cfgs :
            GuildPresent(c)
              => /\ db'[c] = ResetRec
                 /\ resolves[c] # "no_channel" => ~chanOpen']_vars

\* C11: the save of daily_reset stores the row with given_users empty and
\* last_triggered None whatever the revocations returned, after remove_roles
\* was awaited for every recorded id that holds the role, and its channel lock,
\* when the call succeeds, leaves the channel closed.
C11_ResetEffect ==
  [][/\ (resetT.pc = "save" /\ resetT' # resetT)
          => /\ db'[resetT.cfg] = ResetRec
             /\ resolves[resetT.cfg] # "no_role"
                  => \A u \in SeqToSet(resetT.recs[resetT.cfg].given_users) :
                       u \in hasRole => u \in resetT.tried
     /\ (resetT.pc = "chlock" /\ resetT' # resetT /\ faults' = faults)
          => ~chanOpen']_vars

\* A reset inside the window has ended after awaiting remove_roles for two
\* members, one of whom still holds the role because the call raised; the row
\* is reset and the channel closed.
C11_Witness ==
  /\ resetT.pc = "sleep"
  /\ resetT.ran = Date(now)
  /\ resetT.tried = {"A", "B"}
  /\ hasRole \in {{"A"}, {"B"}}
  /\ db["c1"] = ResetRec
  /\ ~chanOpen

\* C12: a handler whose message leaves fewer than max_users arrivals appended
\* since the activation ends without closing: the channel's permission, the
\* role holders and the stored rows are as they were.
C12_NoEarlyClosure ==
  [][\A i \in 1..MaxMsgs :
       (/\ msgs[i].pc = "fetch"
        /\ msgs'[i] # msgs[i]
        /\ buffered' < conf[msgs[i].cfg].max_users)
       => /\ msgs'[i].pc = "done"
          /\ chanOpen' = chanOpen
          /\ hasRole' = hasRole
          /\ db' = db]_vars

\* One arrival is queued under a limit of two: its handler has ended, the
\* channel is open and nobody is recorded.
C12_Witness ==
  /\ buffered = 1
  /\ Len(QueueOf(queue, Channel)) = 1
  /\ conf["c1"].max_users = 2
  /\ msgs[1].pc = "done"
  /\ chanOpen
  /\ db["c1"].given_users = <<>>
  /\ db["c1"].last_triggered = Date(now)

\* Every add_roles call of the closure has returned.
AllGranted(m) == \A k \in 1..Len(m.oks) : m.oks[k]

\* C13: a closure that finds exactly max_users entries in the queue makes the
\* authors of all of them winners and nobody a loser, and when every add_roles
\* call has succeeded its save stores given_users as the handler fetched it
\* followed by these max_users winners.
C13_ExactFill ==
  [][\A i \in 1..MaxMsgs :
       LET m == msgs[i]
           n == conf[m.cfg].max_users
       IN /\ (m.pc = "lock" /\ msgs'[i] # m /\ Len(QueueOf(queue, Channel)) = n)
               => /\ Len(msgs'[i].wins) = n
                  /\ SeqToSet(msgs'[i].wins) = SeqToSet(Authors(QueueOf(queue, Channel)))
                  /\ msgs'[i].losers = <<>>
          /\ (m.pc = "save" /\ msgs'[i] # m /\ m.seen = n /\ AllGranted(m))
               => /\ db'[m.cfg].given_users = m.base \o m.wins
                  /\ Len(db'[m.cfg].given_users) = Len(m.base) + n]_vars

\* With a limit of two, A then B were queued, the closure saw the two, both
\* won, nobody lost, both grants succeeded and the row records A and B.
C13_Witness ==
  \E i \in 1..MaxMsgs :
    /\ msgs[i].pc = "announce"
    /\ conf["c1"].max_users = 2
    /\ msgs[i].seen = 2
    /\ AllGranted(msgs[i])
    /\ msgs[i].base = <<>>
    /\ msgs[i].wins = <<"A", "B">>
    /\ msgs[i].losers = <<>>
    /\ db["c1"].given_users = <<"A", "B">>
    /\ hasRole = {"A", "B"}

\* The entries of q stamped t, in the order q holds them.
Stamped(q, t) == LET Is(e) == e.ts = t IN SelectSeq(q, Is)

\* C14 as stated: the closure leaves the queue sorted ascending by timestamp
\* with equal timestamps in insertion order, the winners are the authors of
\* its first max_users entries and the losers the authors of the remaining
\* entries.
C14_SplitByPosition ==
  [][\A i \in 1..MaxMsgs :
       (msgs[i].pc = "lock" /\ msgs'[i] # msgs[i])
       => LET q == QueueOf(queue, Channel)
              sorted == queue'[Channel]
              max_users == conf[msgs[i].cfg].max_users
              n == IF Len(q) < max_users THEN Len(q) ELSE max_users
          IN /\ Len(sorted) = Len(q)
             /\ \A a, b \in 1..Len(sorted) : a < b => sorted[a].ts <= sorted[b].ts
             /\ \A e \in SeqToSet(q) : Stamped(sorted, e.ts) = Stamped(q, e.ts)
             /\ msgs'[i].wins = Authors(SubSeq(sorted, 1, n))
             /\ msgs'[i].losers = Authors(SubSeq(sorted, n + 1, Len(sorted)))]_vars

\* The queues holding the entries of q in some order.
Perms(q) == {[k \in DOMAIN q |-> q[f[k]]] : f \in Permutations(DOMAIN q)}

\* The closure's split is the split of every queue holding the same entries.
SameSplit(i) ==
  LET max_users == conf[msgs[i].cfg].max_users IN
  \A p \in Perms(QueueOf(queue, Channel)) :
    /\ Winners(SortByTs(p), max_users) = msgs'[i].wins
    /\ Without(Authors(SortByTs(p)), Winners(SortByTs(p), max_users)) = msgs'[i].losers

DistinctStamps(q) == \A a, b \in 1..Len(q) : q[a].ts = q[b].ts => a = b

\* C15 as stated: the winners and losers of a closure are those of every
\* queue holding the same (author, timestamp) entries in another order.
C15_SplitOfSet ==
  [][\A i \in 1..MaxMsgs :
       (msgs[i].pc = "lock" /\ msgs'[i] # msgs[i]) => SameSplit(i)]_vars

\* C15: when no two entries of the queue carry the same timestamp, the
\* winners and losers of a closure are those of every queue holding the same
\* entries in another order.
C15_SplitOfDistinct ==
  [][\A i \in 1..MaxMsgs :
       (/\ msgs[i].pc = "lock"
        /\ msgs'[i] # msgs[i]
        /\ DistinctStamps(QueueOf(queue, Channel)))
       => SameSplit(i)]_vars

\* A closure has split three entries of distinct timestamps under a limit of
\* two, the entry appended last not being the latest: two winners, one loser.
C15_Witness ==
  /\ msgs[1].pc = "grant"
  /\ msgs[1].seen = 3
  /\ conf["c1"].max_users = 2
  /\ DistinctStamps(queue[Channel])
  /\ msgs[1].ts < queue[Channel][3].ts
  /\ Len(msgs[1].wins) = 2
  /\ Len(msgs[1].losers) = 1

\* The winners whose add_roles call returned, in the order of the calls.
RECURSIVE Granted(_, _)
Granted(wins, oks) ==
  IF wins = <<>> \/ oks = <<>> THEN <<>>
  ELSE (IF Head(oks) THEN <<Head(wins)>> ELSE <<>>) \o Granted(Tail(wins), Tail(oks))

\* C16: add_roles gives the role exactly when it returns, it is awaited for
\* every winner whatever the earlier calls did, and the save of the closure
\* stores given_users as the handler fetched it followed by the ids of exactly
\* the winners whose call returned.
C16_RecordedIffGranted ==
  [][\A i \in 1..MaxMsgs :
       LET m == msgs[i] IN
       /\ (m.pc = "grant" /\ msgs'[i] # m)
            => /\ msgs'[i].k = m.k + 1
               /\ msgs'[i].pc = IF m.k < Len(m.wins) THEN "grant" ELSE "save"
               /\ hasRole' = IF faults' = faults THEN hasRole \cup {m.wins[m.k]} ELSE hasRole
       /\ (m.pc = "save" /\ msgs'[i] # m)
            => /\ Len(m.oks) = Len(m.wins)
               /\ db'[m.cfg].given_users = m.base \o Granted(m.wins, m.oks)]_vars

\* A closure with two winners has saved after the first add_roles call raised
\* and the second returned: only the second winner is recorded and holds the
\* role.
C16_Witness ==
  \E i \in 1..MaxMsgs :
    /\ msgs[i].pc = "announce"
    /\ msgs[i].wins = <<"A", "B">>
    /\ msgs[i].oks = <<FALSE, TRUE>>
    /\ msgs[i].base = <<>>
    /\ db["c1"].given_users = <<"B">>
    /\ hasRole = {"B"}

\* C17: the handler of a message whose author holds the role, or is recorded
\* in given_users of the row as fetched, ends at once: the queue, the stored
\* rows, the channel's permission and the role holders are as they were.
C17_HolderNotQueued ==
  [][\A i \in 1..MaxMsgs :
       LET m == msgs[i] IN
       (/\ m.pc = "fetch"
        /\ msgs'[i] # m
        /\ \/ m.author \in hasRole
           \/ m.author \in SeqToSet(db[m.cfg].given_users))
       => /\ msgs'[i].pc = "done"
          /\ queue' = queue
          /\ db' = db
          /\ chanOpen' = chanOpen
          /\ hasRole' = hasRole]_vars

\* Two messages have been dismissed, one because its author holds the role,
\* one because its author, who does not, is recorded; nothing is queued, the
\* channel is open.
C17_Witness ==
  \E i, j \in 1..MaxMsgs :
    /\ msgs[i].pc = "done" /\ msgs[i].out = "holder"
    /\ msgs[j].pc = "done" /\ msgs[j].out = "recorded"
    /\ msgs[i].author \in hasRole
    /\ msgs[j].author \notin hasRole
    /\ msgs[j].author \in SeqToSet(db["c1"].given_users)
    /\ queue[Channel] = <<>>
    /\ chanOpen

\* C18: a message of another member received after a handler has seen the
\* limit reached (its receipt number is higher) is not among the winners that
\* handler computes.
C18_LateNotWinner ==
  \A i, j \in 1..MaxMsgs :
    (/\ msgs[i].pc \in {"grant", "save", "announce"}
     /\ msgs[j].rx > msgs[i].rx
     /\ msgs[j].author # msgs[i].author)
    => msgs[j].author \notin SeqToSet(msgs[i].wins)

\* C19: the save of an arrival handler loses nothing another engine stored
\* since the handler fetched its row: every member recorded in the stored row
\* is recorded after the save, and last_triggered, which the handler does not
\* set, is the stored one.
C19_NoLostUpdate ==
  [][\A i \in 1..MaxMsgs :
       (msgs[i].pc = "save" /\ msgs'[i].pc = "announce")
       => LET c == msgs[i].cfg IN
          /\ SeqToSet(db[c].given_users) \subseteq SeqToSet(db'[c].given_users)
          /\ db'[c].last_triggered = db[c].last_triggered]_vars

\* C20: last_triggered of a stored row becomes a date only by the save of an
\* activation and becomes none only by the save of the reset.
C20_TriggerDateWriters ==
  [][\A c \in Cfgs :
       db'[c].last_triggered # db[c].last_triggered
       => IF db'[c].last_triggered = NoDate
          THEN resetT.pc = "save" /\ resetT'.pc # "save"
          ELSE \E w \in {"check", "manual"} : act[w].pc = "save" /\ act'[w].pc # "save"]_vars

\* C21: CancelledError raised at an await of a loop's iteration ends the loop,
\* whatever try statements are around the await, and a loop that has ended
\* takes no further step.
C21_CancelPropagates ==
  [][/\ (checkT.cancel /\ checkT' # checkT) => checkT'.pc = "stopped"
     /\ (resetT.cancel /\ resetT' # resetT) => resetT'.pc = "stopped"
     /\ checkT.pc = "stopped" => checkT' = checkT /\ act'["check"] = act["check"]
     /\ resetT.pc = "stopped" => resetT' = resetT]_vars

\* Both loops have ended, daily_reset at its await of remove_roles, inside the
\* try of the member, the try of the row and the try of the iteration; the
\* lock is free.
C21_Witness ==
  /\ checkT.pc = "stopped"
  /\ resetT.pc = "stopped"
  /\ resetT.cut = "revoke"
  /\ lock = [holder |-> None, waiters |-> <<>>]

\* C22: no loop is ended inside an activation or a reset of a row that has
\* begun: not after the row was saved with today's date and before the channel
\* was opened, not after a role was revoked and before given_users was cleared.
ActivationCut ==
  /\ checkT.pc = "stopped"
  /\ checkT.cut = "open"
  /\ db[act["check"].cfg].last_triggered = act["check"].date
  /\ ~chanOpen

ResetCut ==
  /\ resetT.pc = "stopped"
  /\ resetT.cut \in {"revoke", "save"}
  /\ resetT.tried \ hasRole # {}
  /\ db[resetT.cfg].given_users # <<>>

C22_TickCompletes == ~ActivationCut /\ ~ResetCut

\* C23: in an iteration of check_waiting every row that is due and resolves
\* is either the one activate_waiting is called for next or still to come in
\* the for loop, when the rows are fetched (whatever rows do not parse or do
\* not resolve) and after a call for another row raised; in an iteration of
\* daily_reset the same holds of every row whose guild resolves, and a failed
\* remove_roles leaves the loop in the same row.
CheckRowKept(c) ==
  \/ act'["check"].pc = "save" /\ act'["check"].cfg = c /\ checkT'.pc = "call"
  \/ c \in SeqToSet(checkT'.todo) /\ checkT'.pc = "call"

ResetRowKept(c) ==
  \/ resetT'.cfg = c /\ resetT'.pc \in {"revoke", "save"}
  \/ c \in SeqToSet(resetT'.todo) /\ resetT'.pc \in {"revoke", "save", "chlock"}

C23_RowFailureIsolated ==
  [][/\ (checkT.pc = "fetch" /\ checkT' # checkT)
          => \A c \in Rows :
               IsDue(c, db[c], checkT.cnow) /\ Resolves(c) => CheckRowKept(c)
     /\ (checkT.pc = "call" /\ faults' # faults)
          => \A c \in SeqToSet(checkT.todo) :
               IsDue(c, checkT.recs[c], checkT.cnow) /\ Resolves(c) => CheckRowKept(c)
     /\ (resetT.pc = "fetch" /\ resetT' # resetT)
          => \A c \in Rows : GuildPresent(c) => ResetRowKept(c)
     /\ (resetT.pc \in {"revoke", "save", "chlock"} /\ faults' # faults)
          => \A c \in SeqToSet(resetT.todo) : GuildPresent(c) => ResetRowKept(c)
     /\ (resetT.pc = "revoke" /\ faults' # faults)
          => resetT'.cfg = resetT.cfg /\ resetT'.pc \in {"revoke", "save"}]_vars

\* The save of the first row raised in the iteration of 04:00, the second row
\* was activated in that iteration, and the next iteration is running.
C23_Witness ==
  /\ faults = 1
  /\ IsDue("c1", [given_users |-> <<>>, last_triggered |-> NoDate], startedAt)
  /\ Resolves("c1")
  /\ fired["c1"] = <<>>
  /\ fired["c2"] = <<Date(startedAt)>>
  /\ now = startedAt + 1
  /\ checkT.pc = "fetch"

\* C24: when waiting takeback saves, remove_roles has been awaited for every
\* recorded member holding the role, the count reported is the number of calls
\* that returned and at most the number of recorded members, and the stored
\* row gets given_users empty and keeps its last_triggered.
RECURSIVE Returned(_)
Returned(oks) ==
  IF oks = <<>> THEN 0 ELSE (IF Head(oks) THEN 1 ELSE 0) + Returned(Tail(oks))

C24_Takeback ==
  [][(tb.pc = "save" /\ tb'.pc = "idle")
       => /\ \A u \in SeqToSet(tb.rec.given_users) : u \in hasRole => u \in tb.tried
          /\ tb.removed = Returned(tb.oks)
          /\ tb.removed <= Len(tb.rec.given_users)
          /\ db'[tb.cfg].given_users = <<>>
          /\ db'[tb.cfg].last_triggered = db[tb.cfg].last_triggered]_vars

\* C25: when a confirmed takebackall has completed, every row of the guild
\* has given_users empty, the total of removed roles is the number of
\* revocations that returned, and the number of processed rows is the number
\* of fetched rows that had users; when the prompt is declined no row and no
\* role changes.
TbaWithUsers == {c \in DOMAIN adm.tba.recs : adm.tba.recs[c].given_users # <<>>}

C25_TakebackAll ==
  /\ (adm.tba.pc = "done" /\ adm.reply.kind = "completed") =>
       /\ \A c \in GuildRows : db[c].given_users = <<>>
       /\ adm.tba.total = Returned(adm.tba.oks)
       /\ adm.tba.processed = Cardinality(TbaWithUsers)
  /\ (adm.tba.pc = "done" /\ adm.reply.kind = "cancelled") =>
       /\ \A c \in Rows : db[c] = IF c \in DOMAIN adm.tba.recs THEN adm.tba.recs[c] ELSE db[c]
       /\ adm.tba.oks = <<>>

\* C26: a guild that is not premium never has more than FreeLimit rows,
\* whatever setup dialogues run, two at once included.
C26_FreeLimit == ~adm.premium => Cardinality(GuildRows) <= FreeLimit

\* C27: edit, delete, takeback and test given an id that no row has, or the
\* id of a row of another guild, reply that no row was found and change no
\* row, no queue, no role and no channel permission.
Foreign(id) == id \notin Rows \/ conf[id].guild # Guild

LookupOf(id) ==
  [edit |-> EditFetch(id), delete |-> DeleteFetch(id),
   takeback |-> WaitTakeback(id), test |-> WaitTest(id)]

C27_NotFound ==
  [][\A id \in LookupIds, cmd \in {"edit", "delete", "takeback", "test"} :
       (Foreign(id) /\ LookupOf(id)[cmd]) =>
          /\ adm'.reply = NoSuchRow(cmd, id)
          /\ UNCHANGED <<conf, db, resolves, queue, hasRole, chanOpen, act, manual, tb,
                         budget, fired>>
          /\ adm'.edit = adm.edit /\ adm'.del = adm.del]_vars

C27_Witness ==
  /\ adm.reply.kind = "not_found"
  /\ adm.reply.cmd = "takeback"
  /\ adm.reply.id \in Rows
  /\ conf[adm.reply.id].guild # Guild
  /\ db[adm.reply.id].given_users # <<>>

\* C28: every stored row has 1 <= max_users <= 1000 and a trigger_time of an
\* hour in 0..23 and a minute in 0..59, whatever setup and edit dialogues
\* ran; a dialogue given a time or a limit that is not of this form replies
\* with the error and changes no row, no role and no channel permission.
WellFormed(row) ==
  /\ 1 <= row.max_users /\ row.max_users <= 1000
  /\ Len(row.trigger_time) = 2
  /\ row.trigger_time[1] \in 0..23
  /\ row.trigger_time[2] \in 0..59

IsTime(in) == Len(in) = 2 /\ in[1].num /\ in[2].num /\ in[1].val \in 0..23 /\ in[2].val \in 0..59

IsLimit(in) == in.num /\ in.val \in 1..1000

C28_Validation ==
  /\ [](\A c \in Rows : WellFormed(conf[c]))
  /\ [][/\ \A in \in TimeInputs :
             (~IsTime(in) /\ (SetupTime(1, in) \/ EditTime(in))) =>
                /\ adm'.reply.kind = "invalid_time"
                /\ UNCHANGED <<conf, db, resolves, chanOpen, hasRole, queue, fired>>
        /\ \A in \in LimitInputs :
             (~IsLimit(in) /\ (SetupLimit(1, in) \/ EditLimit(in))) =>
                /\ adm'.reply.kind = "invalid_limit"
                /\ UNCHANGED <<conf, db, resolves, chanOpen, hasRole, queue, fired>>]_vars

C28_Witness ==
  /\ adm.reply = Reply("edit", "invalid_time")
  /\ \E c \in Rows : conf[c].trigger_time = <<23, 59>> /\ conf[c].max_users = 1000

\* C29: the reset of a row fetched with given_users empty changes no field of
\* the stored row, last_triggered included, and no role.
C29_EmptyReset ==
  [][(/\ resetT.pc = "save"
      /\ resetT' # resetT
      /\ resetT.recs[resetT.cfg].given_users = <<>>
      /\ db[resetT.cfg].given_users = <<>>)
       => /\ db'[resetT.cfg] = db[resetT.cfg]
          /\ hasRole' = hasRole]_vars

\* C30: when daily_reset runs again with nothing in between, the second run
\* leaves every stored row and every member's role as the first run left
\* them; it only sets the channel permission again.
SecondRun == resetT.pc \in {"fetch", "revoke", "save", "chlock"} /\ Date(now) # Date(startedAt)

C30_ResetIdempotent ==
  [][SecondRun => /\ db' = db
                  /\ hasRole' = hasRole
                  /\ conf' = conf
                  /\ chanOpen' => chanOpen]_vars

C30_Witness ==
  /\ Date(now) # Date(startedAt)
  /\ resetT.pc = "sleep"
  /\ resetT.ran = Date(now)
  /\ db = [c \in TwoRows |-> ResetRec]
  /\ hasRole = {"A"}
  /\ ~chanOpen

\* C31: a handler that has begun a closure ends with the queue of its
\* channel empty, whichever of its awaited calls raised.
C31_ClosureClears ==
  [][\A i \in 1..MaxMsgs :
       (msgs[i].pc \in {"lock", "grant", "save", "announce"} /\ msgs'[i].pc = "done")
          => QueueOf(queue', Channel) = <<>>]_vars

\* C32: whenever neither loop is inside an iteration the lock is free and
\* nobody waits for it, also after an iteration that an exception or a
\* cancellation ended; the holder of the lock is inside its iteration.
InTick(t) == t.pc \notin {"sleep", "stopped"}

C32_LockReleased ==
  /\ (~InTick(checkT) /\ ~InTick(resetT)) => lock = [holder |-> None, waiters |-> <<>>]
  /\ lock.holder = "check" => InTick(checkT)
  /\ lock.holder = "reset" => InTick(resetT)

C32_Witness ==
  /\ checkT.pc = "stopped"
  /\ checkT.cut \notin {"none", "sleep", "wait"}
  /\ resetT.pc = "sleep"
  /\ faults > 0
  /\ lock.holder = None

\* C33: a closure whose set_permissions raised still sorts the queue, takes
\* the first max_users authors as winners, and with its later calls returning
\* grants them the role, stores the row with them (every grant having
\* succeeded) and clears the queue.
LockFailed(i) == msgs[i].out = "lock_failed" /\ msgs'[i] # msgs[i] /\ faults' = faults

C33_LockBestEffort ==
  [][\A i \in 1..MaxMsgs :
       /\ (msgs[i].pc = "lock" /\ msgs'[i] # msgs[i] /\ faults' > faults) =>
             /\ QueueOf(queue', Channel) = SortByTs(QueueOf(queue, Channel))
             /\ msgs'[i].pc = IF QueueOf(queue, Channel) # <<>> THEN "grant" ELSE "save"
             /\ msgs'[i].wins = Winners(QueueOf(queue', Channel), conf[msgs[i].cfg].max_users)
       /\ (msgs[i].pc = "grant" /\ LockFailed(i)) =>
             /\ msgs[i].wins[msgs[i].k] \in hasRole'
             /\ msgs'[i].pc = IF msgs[i].k < Len(msgs[i].wins) THEN "grant" ELSE "save"
       /\ (msgs[i].pc = "save" /\ LockFailed(i) /\ msgs[i].oks = [j \in 1..Len(msgs[i].wins) |-> TRUE]) =>
             /\ db'[msgs[i].cfg].given_users = msgs[i].base \o msgs[i].wins
             /\ msgs'[i].pc = "announce"
       /\ (msgs[i].pc = "announce" /\ LockFailed(i)) =>
             /\ QueueOf(queue', Channel) = <<>>
             /\ msgs'[i].pc = "done"]_vars

C33_Witness ==
  \E i \in 1..MaxMsgs :
    /\ msgs[i].pc = "announce"
    /\ msgs[i].out = "lock_failed"
    /\ Len(msgs[i].wins) = 2
    /\ chanOpen

\* C34: between an activation and the next activation or reset at most one
\* handler runs the closure steps: the handler whose append was the
\* max_users-th since the activation, and no handler of a later append.
C34_OneClosure ==
  \A i \in 1..MaxMsgs :
    msgs[i].pc \in {"lock", "grant", "save", "announce"}
      => msgs[i].rx <= conf[msgs[i].cfg].max_users

\* C35: with the messages handled one after the other and every call
\* returning, the queue is shorter than max_users whenever no message is being
\* handled, and a closure sees exactly max_users entries and has no losers.
C35_QueueBelowLimit ==
  /\ Quiet => \A c \in Cfgs : Len(QueueOf(queue, Channel)) < conf[c].max_users
  /\ \A i \in 1..MaxMsgs :
       msgs[i].pc \in {"grant", "save", "announce"} =>
          /\ msgs[i].seen = conf[msgs[i].cfg].max_users
          /\ Len(msgs[i].wins) = msgs[i].seen
          /\ msgs[i].losers = <<>>

C35_Witness ==
  \E i \in 1..MaxMsgs :
    /\ msgs[i].pc = "announce"
    /\ msgs[i].wins = <<"A", "B">>
    /\ manual.pc = "idle"
    /\ budget.manual < MaxManual

\* C36: the queue of a channel holds at most one entry of each message
\* posted, also with two rows activated today on the channel.
C36_OneEntryPerMessage ==
  \A t \in 1..MaxMsgs :
    Cardinality({k \in 1..Len(QueueOf(queue, Channel)) :
                   QueueOf(queue, Channel)[k].ts = t}) <= 1

\* C37: while the channel is open on a row that was activated and has not
\* been reset, the message of a member who neither holds the role nor is in
\* given_users is appended to the queue, also after midnight for a row
\* activated the day before.
C37_OpenGateBuffers ==
  [][\A i \in 1..MaxMsgs :
       (/\ msgs[i].pc = "fetch" /\ msgs'[i].pc # "fetch"
        /\ chanOpen
        /\ db[msgs[i].cfg].last_triggered # NoDate
        /\ msgs[i].author \notin hasRole
        /\ msgs[i].author \notin SeqToSet(db[msgs[i].cfg].given_users))
         => buffered' = buffered + 1]_vars

\* C38: waiting test replies with success only when the activation opened
\* the channel.
C38_SuccessMeansOpened ==
  (/\ manual.pc = "idle"
   /\ act["manual"].out # "none"
   /\ TestReply(act["manual"].out) = "success")
    => act["manual"].out = "opened"

\* waiting test <id> run before the trigger minute of the row on the current
\* date.
EarlyTrigger(c) ==
  /\ Parses(conf[c].trigger_time)
  /\ now < TriggerToday(c)
  /\ ManualTrigger(c)

\* The two loops and manual triggers that come before the trigger time.
EarlyInit == InitWith(StartTimes, MaxElapsed, TriggerTimes, ResolveKinds, MaxManual, 0)
EarlyNext ==
  \/ Timers
  \/ \E c \in Cfgs : EarlyTrigger(c)
  \/ ActSave("manual")
  \/ ActOpen("manual")
EarlySpec == EarlyInit /\ [][EarlyNext]_vars

\* The manual activation of row c on the date of `cnow` has saved the row and
\* returned.
ManualDone(c, cnow) ==
  /\ manual.pc = "idle"
  /\ act["manual"].cfg = c
  /\ act["manual"].date = Date(cnow)
  /\ act["manual"].out \in {"opened", "refused"}

\* C39: a check iteration that reads the clock in the trigger minute of a
\* resolvable row activates the row, also when a manual trigger has activated
\* it earlier on that date.
C39_ScheduledRunKept ==
  [][\A c \in Cfgs :
       (/\ CheckFetch
        /\ Parses(conf[c].trigger_time)
        /\ checkT.cnow = TriggerToday(c)
        /\ Resolves(c)
        /\ ManualDone(c, checkT.cnow))
       => (act'["check"].cfg = c /\ act'["check"].pc # "idle")]_vars

\* The two loops when every step that is ready to run is run and every awaited
\* call returns, except channel.set_permissions of an activation started by
\* check_waiting (lines 204-210), which may never return.
HangInit == InitWith(StartTimes, MaxElapsed, TriggerTimes, ResolveKinds, 0, 0)
HangSpec ==
  /\ HangInit
  /\ [][Timers]_vars
  /\ WF_vars(CheckWake)
  /\ WF_vars(CheckAcquire)
  /\ WF_vars(CheckFetch)
  /\ WF_vars(ActSave("check"))
  /\ WF_vars(ResetWake)
  /\ WF_vars(ResetAcquire)
  /\ WF_vars(ResetFetch)
  /\ WF_vars(ResetRevoke)
  /\ WF_vars(ResetSave)
  /\ WF_vars(ResetChLock)
  /\ WF_vars(Advance)

\* C40: an iteration of daily_reset that waits for the lock acquires it, also
\* when a call of the check_waiting iteration holding the lock never returns.
C40_OtherTimerRuns == (resetT.pc = "wait") ~> (resetT.pc # "wait")

====
